---- MODULE Spec2Model ----
(***************************************************************************)
(* Pythography: the schema-driven validation engine (bibdata.py) and the   *)
(* BibTeX text codec (bibtex.py), with the IEEE Xplore record type         *)
(* (ieeexplore.py) that feeds the same engine.                             *)
(*                                                                         *)
(* Text is a sequence of one-character strings.  Python values are tagged  *)
(* records: [t |-> "str", s |-> text], [t |-> "int", n |-> k],             *)
(* [t |-> "none"], [t |-> "authors", l |-> ...], [t |-> "doi", ...],       *)
(* [t |-> "pages", ...].  A call that may raise returns                    *)
(* [exc |-> "none" or the exception's class, val |-> its value].           *)
(***************************************************************************)
EXTENDS Integers, Sequences, FiniteSets, TLC

\* F applied to the value of one evaluation of v.
Bind(v, F(_)) == F(v)

(***************************************************************************)
(* Characters and str methods                                              *)
(***************************************************************************)
LowerChars ==
  <<"a","b","c","d","e","f","g","h","i","j","k","l","m",
    "n","o","p","q","r","s","t","u","v","w","x","y","z">>

UpperChars ==
  <<"A","B","C","D","E","F","G","H","I","J","K","L","M",
    "N","O","P","Q","R","S","T","U","V","W","X","Y","Z">>

DigitChars ==
  <<"0","1","2","3","4","5","6","7","8","9">>

\* The position of c in seq, 0 when absent (list.index without the raise).
IndexOf(seq, c) ==
  IF \E i \in 1..Len(seq) : seq[i] = c
  THEN CHOOSE i \in 1..Len(seq) : seq[i] = c /\ \A j \in 1..(i-1) : seq[j] # c
  ELSE 0

IsSpace(c) == c \in {" ", "\n", "\t", "\r"}

IsDigit(c) == IndexOf(DigitChars, c) > 0

IsAlpha(c) == IndexOf(LowerChars, c) > 0 \/ IndexOf(UpperChars, c) > 0

\* str.isalnum() of one character
IsAlnum(c) == IsAlpha(c) \/ IsDigit(c)

\* str.isalpha(): non-empty and every character a letter
StrIsAlpha(s) == Len(s) > 0 /\ \A i \in 1..Len(s) : IsAlpha(s[i])

LowerC(c) ==
  IF IndexOf(UpperChars, c) > 0 THEN LowerChars[IndexOf(UpperChars, c)] ELSE c

UpperC(c) ==
  IF IndexOf(LowerChars, c) > 0 THEN UpperChars[IndexOf(LowerChars, c)] ELSE c

\* str.lower()
Lower(s) == [i \in 1..Len(s) |-> LowerC(s[i])]

\* str.upper()
Upper(s) == [i \in 1..Len(s) |-> UpperC(s[i])]

\* str.lstrip(), the \s* of a pattern
LStrip(s) ==
  Bind({ i \in 1..Len(s) : ~IsSpace(s[i]) }, LAMBDA kept :
    IF kept = {} THEN <<>>
    ELSE SubSeq(s, CHOOSE i \in kept : \A j \in kept : i <= j, Len(s)))

\* str.strip()
Strip(s) ==
  Bind({ i \in 1..Len(s) : ~IsSpace(s[i]) }, LAMBDA kept :
    IF kept = {} THEN <<>>
    ELSE SubSeq(s, CHOOSE i \in kept : \A j \in kept : i <= j,
                   CHOOSE i \in kept : \A j \in kept : i >= j))

\* The concatenation of parts[lo..hi].
RECURSIVE Cat(_, _, _)
Cat(parts, lo, hi) ==
  IF lo > hi THEN <<>>
  ELSE IF lo = hi THEN parts[lo]
  ELSE Cat(parts, lo, (lo + hi) \div 2) \o Cat(parts, ((lo + hi) \div 2) + 1, hi)

\* Whether sep occurs in s at position i.
MatchAt(s, sep, i) ==
  /\ i + Len(sep) - 1 <= Len(s)
  /\ \A j \in 1..Len(sep) : s[i + j - 1] = sep[j]

\* str.split(sep) for a non-empty separator, from position start on: the
\* pieces between occurrences, scanning left to right; always at least one
\* piece.
RECURSIVE SplitFrom(_, _, _)
SplitFrom(s, sep, start) ==
  Bind({ j \in start..Len(s) : MatchAt(s, sep, j) }, LAMBDA found :
    IF found = {} THEN << SubSeq(s, start, Len(s)) >>
    ELSE Bind(CHOOSE j \in found : \A k \in found : j <= k, LAMBDA j :
           << SubSeq(s, start, j - 1) >> \o SplitFrom(s, sep, j + Len(sep))))

Split(s, sep) == SplitFrom(s, sep, 1)

\* sep.join(parts)
Join(sep, parts) ==
  Cat([i \in 1..Len(parts) |-> IF i = 1 THEN parts[1] ELSE sep \o parts[i]], 1, Len(parts))

\* cleanGroup that returns the group as it was read.
cleanGroupVerbatim(group) == group

\* re.sub(r'\s+', ' ', group)
cleanGroup(group) ==
  Cat([i \in 1..Len(group) |->
         IF ~IsSpace(group[i]) THEN << group[i] >>
         ELSE IF i > 1 /\ IsSpace(group[i - 1]) THEN <<>>
         ELSE <<" ">>], 1, Len(group))

RECURSIVE DigitsVal(_)
DigitsVal(s) ==
  IF s = <<>> THEN 0
  ELSE 10 * DigitsVal(SubSeq(s, 1, Len(s) - 1)) + (IndexOf(DigitChars, s[Len(s)]) - 1)

AllDigits(s) == Len(s) > 0 /\ \A i \in 1..Len(s) : IsDigit(s[i])

RECURSIVE NatToStr(_)
NatToStr(n) ==
  IF n < 10 THEN << DigitChars[n + 1] >>
  ELSE NatToStr(n \div 10) \o << DigitChars[(n % 10) + 1] >>

\* str(n) of an int
IntToStr(n) == IF n < 0 THEN <<"-">> \o NatToStr(-n) ELSE NatToStr(n)

(***************************************************************************)
(* Python values and calls that may raise                                  *)
(***************************************************************************)
StrV(s) == [t |-> "str", s |-> s]

IntV(n) == [t |-> "int", n |-> n]

NoneV == [t |-> "none"]

Ok(v) == [exc |-> "none", val |-> v]

Raise(e) == [exc |-> e, val |-> NoneV]

\* int(value): an int is kept; a str is stripped and read as an optionally
\* signed decimal, ValueError otherwise; any other object is a TypeError.
PyInt(v) ==
  IF v.t = "int" THEN Ok(v)
  ELSE IF v.t = "str"
  THEN Bind(Strip(v.s), LAMBDA s :
         Bind(IF s # <<>> /\ Head(s) \in {"-", "+"} THEN Tail(s) ELSE s, LAMBDA body :
           IF AllDigits(body)
           THEN Ok(IntV(IF Head(s) = "-" THEN -DigitsVal(body) ELSE DigitsVal(body)))
           ELSE Raise("ValueError")))
  ELSE Raise("TypeError")

(***************************************************************************)
(* The string literals of the source, as text                              *)
(***************************************************************************)
\* A str literal as the sequence of its characters
S(str) == [i \in 1..Len(str) |-> SubSeq(str, i, i)]

months ==
  <<<<"j","a","n">>,
    <<"f","e","b">>,
    <<"m","a","r">>,
    <<"a","p","r">>,
    <<"m","a","y">>,
    <<"j","u","n">>,
    <<"j","u","l">>,
    <<"a","u","g">>,
    <<"s","e","p">>,
    <<"o","c","t">>,
    <<"n","o","v">>,
    <<"d","e","c">>>>

longMonths ==
  <<<<"j","a","n","u","a","r","y">>,
    <<"f","e","b","r","u","a","r","y">>,
    <<"m","a","r","c","h">>,
    <<"a","p","r","i","l">>,
    <<"m","a","y">>,
    <<"j","u","n","e">>,
    <<"j","u","l","y">>,
    <<"a","u","g","u","s","t">>,
    <<"s","e","p","t","e","m","b","e","r">>,
    <<"o","c","t","o","b","e","r">>,
    <<"n","o","v","e","m","b","e","r">>,
    <<"d","e","c","e","m","b","e","r">>>>

(***************************************************************************)
(* bibdata.py: DOI, Author, AuthorList                                     *)
(***************************************************************************)
\* A DOI whose prefix ends at the first `/` of the value, whatever its length.
DOIFirstSlash(value) ==
  IF value.t # "str" THEN Raise("TypeError")
  ELSE LET s == value.s
           k == IndexOf(s, "/")
       IN  IF /\ k > 4 /\ k < Len(s)
              /\ SubSeq(s, 1, 3) = <<"1", "0", ".">>
              /\ \A i \in 4..Len(s) : s[i] # "\n"
           THEN Ok([t |-> "doi", prefix |-> SubSeq(s, 1, k - 1), suffix |-> SubSeq(s, k + 1, Len(s))])
           ELSE Raise("ValueError")

\* DOI.__init__: re.fullmatch(r'(?P<prefix>10\..{4})/(?P<suffix>.+)', value);
\* "." matches any character but a newline.
DOI(value) ==
  IF value.t # "str" THEN Raise("TypeError")
  ELSE LET s == value.s
       IN  IF /\ Len(s) >= 9
              /\ SubSeq(s, 1, 3) = <<"1", "0", ".">>
              /\ s[8] = "/"
              /\ \A i \in ((4..7) \cup (9..Len(s))) : s[i] # "\n"
           THEN Ok([t |-> "doi", prefix |-> SubSeq(s, 1, 7), suffix |-> SubSeq(s, 9, Len(s))])
           ELSE Raise("ValueError")

\* [p.strip() for p in text.split(' ') if (len(p.strip()) > 1)]
LongTokens(text) ==
  LET parts == Split(text, <<" ">>)
      strip == [i \in 1..Len(parts) |-> Strip(parts[i])]
  IN  SelectSeq(strip, LAMBDA p : Len(p) > 1)

\* Author.__init__
Author(value) ==
  IF value.t = "list"
  THEN IF value.l = <<>> THEN Raise("IndexError")
       ELSE Ok([t |-> "author", name |-> value.l[1].s,
                forenames |-> [i \in 1..(Len(value.l) - 1) |-> value.l[i + 1].s]])
  ELSE IF value.t = "str"
  THEN Bind(Split(value.s, <<",">>), LAMBDA parts :
         IF Len(parts) = 2
         THEN Ok([t |-> "author", name |-> Strip(parts[1]),
                  forenames |-> LongTokens(parts[2])])
         ELSE IF Len(parts) = 1
         THEN Bind(LongTokens(value.s), LAMBDA toks :
                IF toks = <<>> THEN Raise("IndexError")
                ELSE Ok([t |-> "author", name |-> toks[Len(toks)],
                         forenames |-> SubSeq(toks, 1, Len(toks) - 1)]))
         ELSE Raise("ValueError"))
  ELSE Raise("TypeError")

\* Author.__str__
AuthorStr(a) == a.name \o <<",", " ">> \o Join(<<" ">>, a.forenames)

\* The list comprehension [Author(p) for p in parts]: the first exception
\* raised, in order, ends it.
RECURSIVE AuthorsOf(_)
AuthorsOf(parts) ==
  IF parts = <<>> THEN Ok(<<>>)
  ELSE Bind(IF parts[1].t = "author" THEN Ok(parts[1]) ELSE Author(parts[1]), LAMBDA a :
         IF a.exc # "none" THEN a
         ELSE Bind(AuthorsOf(Tail(parts)), LAMBDA rest :
                IF rest.exc # "none" THEN rest ELSE Ok(<< a.val >> \o rest.val)))

\* AuthorList.__init__; the else branch formats an undefined name (NameError).
AuthorList(authors) ==
  IF authors.t \notin {"list", "str"} THEN Raise("NameError")
  ELSE Bind(AuthorsOf(IF authors.t = "list" THEN authors.l
                      ELSE Bind(Split(authors.s, S(" and ")), LAMBDA p :
                             [i \in 1..Len(p) |-> StrV(p[i])])), LAMBDA r :
         IF r.exc # "none" THEN r ELSE Ok([t |-> "authors", l |-> r.val]))

\* AuthorList.__str__
AuthorListStr(v) ==
  Join(S(" and "), [i \in 1..Len(v.l) |-> AuthorStr(v.l[i])])

(***************************************************************************)
(* bibtex.py: the BibTeX field types and validators                        *)
(***************************************************************************)
RECURSIVE LeadingDigits(_)
LeadingDigits(s) ==
  IF s # <<>> /\ IsDigit(Head(s)) THEN 1 + LeadingDigits(Tail(s)) ELSE 0

Drop(s, n) == SubSeq(s, n + 1, Len(s))

\* __PageRange.__init__:
\* re.fullmatch(r'(?P<begin>\d+)\s*(?:-{1,2}\s*(?P<end>\d+))?', value); when
\* the optional part is absent match['end'] is None and int(None) raises
\* TypeError, which "except KeyError" does not catch.
PageRange(value) ==
  IF value.t # "str" THEN Raise("TypeError")
  ELSE Bind(LeadingDigits(value.s), LAMBDA n1 :
         Bind(LStrip(Drop(value.s, n1)), LAMBDA rest :
           Bind(IF Len(rest) >= 2 /\ rest[1] = "-" /\ rest[2] = "-" THEN 2
                ELSE IF Len(rest) >= 1 /\ rest[1] = "-" THEN 1 ELSE 0, LAMBDA dash :
             Bind(LStrip(Drop(rest, dash)), LAMBDA tail :
               IF n1 = 0 THEN Raise("ValueError")
               ELSE IF rest = <<>> THEN Raise("TypeError")
               ELSE IF dash > 0 /\ AllDigits(tail)
               THEN Ok([t |-> "pages", begin |-> DigitsVal(SubSeq(value.s, 1, n1)),
                        end |-> DigitsVal(tail)])
               ELSE Raise("ValueError")))))

\* __PageRange.__str__
PageRangeStr(v) ==
  IF v.begin = v.end THEN IntToStr(v.begin)
  ELSE IntToStr(v.begin) \o <<"-", "-">> \o IntToStr(v.end)

BoolV(b) == [t |-> "bool", b |-> b]

\* __monthValidator: months[int(month) - 1] indexes a 12-element list, so
\* -12 <= int(month) - 1 <= 11 selects an element (negative indices count
\* from the end) and anything else raises IndexError.
monthValidator(month) ==
  Bind(Lower(month.s), LAMBDA m :
    Bind(IndexOf(longMonths, m), LAMBDA long :
      IF IndexOf(months, m) > 0 THEN Ok(StrV(m))
      ELSE IF long > 0 THEN Ok(StrV(months[long]))
      ELSE Bind(PyInt(month), LAMBDA k :
             IF k.exc # "none" THEN Ok(BoolV(FALSE))
             ELSE Bind(k.val.n - 1, LAMBDA i :
                    IF i >= 0 /\ i <= 11 THEN Ok(StrV(months[i + 1]))
                    ELSE IF i < 0 /\ i >= -12 THEN Ok(StrV(months[i + 13]))
                    ELSE Raise("IndexError")))))

\* str(value) and the f-string formatting of a value
PyStr(v) ==
  CASE v.t = "str"     -> v.s
    [] v.t = "int"     -> IntToStr(v.n)
    [] v.t = "none"    -> S("None")
    [] v.t = "authors" -> AuthorListStr(v)
    [] v.t = "author"  -> AuthorStr(v)
    [] v.t = "doi"     -> v.prefix \o <<"/">> \o v.suffix
    [] v.t = "pages"   -> PageRangeStr(v)

(***************************************************************************)
(* Field Specification tables                                              *)
(***************************************************************************)
\* A field's rules: 'type', and 'min', 'max', 'validator', 'values' when
\* the has* flag says the key is in the dict.
FS(type) ==
  [type |-> type, hasMin |-> FALSE, min |-> NoneV, hasMax |-> FALSE, max |-> NoneV,
   validator |-> "none", hasValues |-> FALSE, values |-> <<>>]

WithMin(fs, v) == [fs EXCEPT !.hasMin = TRUE, !.min = v]

WithMax(fs, v) == [fs EXCEPT !.hasMax = TRUE, !.max = v]

WithValidator(fs, f) == [fs EXCEPT !.validator = f]

WithValues(fs, vs) == [fs EXCEPT !.hasValues = TRUE, !.values = vs]

\* datetime.date.today().year
CurrentYear == 2026

\* BibTeXData.__BibTexFields.__fields, in table order
BibTexFields ==
  << <<S("address"), FS("str")>>,
     <<S("annote"), FS("str")>>,
     <<S("author"), FS("AuthorList")>>,
     <<S("booktitle"), FS("str")>>,
     <<S("chapter"), WithMin(FS("int"), IntV(1))>>,
     <<S("content_type"),
       WithValues(FS("str"),
         << StrV(S("article")), StrV(S("book")), StrV(S("booklet")), StrV(S("inbook")),
            StrV(S("incollection")), StrV(S("inproceedings")), StrV(S("manual")),
            StrV(S("mastersthesis")), StrV(S("misc")), StrV(S("phdthesis")),
            StrV(S("proceedings")), StrV(S("techreport")), StrV(S("unpublished")) >>)>>,
     <<S("crossref"), FS("str")>>,
     <<S("doi"), FS("DOI")>>,
     <<S("edition"), FS("str")>>,
     <<S("editor"), FS("str")>>,
     <<S("howpublished"), FS("str")>>,
     <<S("institution"), FS("str")>>,
     <<S("journal"), FS("str")>>,
     <<S("key"), FS("str")>>,
     <<S("month"), WithValidator(FS("str"), "monthValidator")>>,
     <<S("note"), FS("str")>>,
     <<S("number"), WithMin(FS("int"), IntV(1))>>,
     <<S("organization"), FS("str")>>,
     <<S("pages"), FS("PageRange")>>,
     <<S("publisher"), FS("str")>>,
     <<S("school"), FS("str")>>,
     <<S("series"), FS("str")>>,
     <<S("title"), FS("str")>>,
     <<S("type"), FS("str")>>,
     <<S("volume"), WithMin(FS("int"), IntV(1))>>,
     <<S("year"), WithMax(FS("int"), IntV(CurrentYear))>> >>

\* Result.fields: the fields the BibTeX codec resolves (the date, URL,
\* ISBN/ISSN and index-term fields are not part of this table).
ResultFields ==
  << <<S("authors"), FS("ResultAuthorList")>>,
     <<S("conference_location"), FS("str")>>,
     <<S("content_type"), WithValidator(FS("str"), "contentTypeValidator")>>,
     <<S("doi"), WithValidator(FS("str"), "DOI")>>,
     <<S("end_page"), WithMin(FS("int"), IntV(1))>>,
     <<S("is_number"), WithMin(FS("int"), IntV(0))>>,
     <<S("issue"), WithMin(FS("int"), IntV(1))>>,
     <<S("publication_title"), FS("str")>>,
     <<S("publication_year"), WithMax(FS("int"), IntV(CurrentYear))>>,
     <<S("publisher"), WithValues(FS("str"), << StrV(S("IEEE")), StrV(S("IET")) >>)>>,
     <<S("start_page"), WithMin(FS("int"), IntV(1))>>,
     <<S("title"), FS("str")>>,
     <<S("volume"), WithMin(FS("int"), IntV(1))>> >>

\* MockBibData.fields of the test suite
MockFields ==
  << <<S("field1"), WithMin(FS("int"), IntV(1))>>,
     <<S("field2"), WithMin(FS("int"), IntV(1))>> >>

\* A subclass table that declares several rules on one field: "n" with a
\* minimum above its maximum, "m" with bounds, validator and allowed set,
\* "k" with a validator that replaces the value and an allowed set that
\* holds one replaced form and one unreplaced form.
ProbeFields ==
  << <<S("n"), WithMax(WithMin(FS("int"), IntV(3)), IntV(1))>>,
     <<S("m"), WithValues(WithValidator(
              WithMax(WithMin(FS("str"), StrV(<<"b">>)), StrV(<<"x">>)),
              "monthValidator"),
            << StrV(months[1]), StrV(months[2]) >>)>>,
     <<S("k"), WithValues(WithValidator(FS("str"), "monthValidator"),
            << StrV(months[1]), StrV(longMonths[2]) >>)>> >>

Classes == {"BibData", "MockBibData", "ProbeData", "BibTeXData", "Result"}

\* The class attribute "fields"; bibdata.BibData declares an empty table.
FieldTable(cls) ==
  CASE cls = "BibData"     -> <<>>
    [] cls = "MockBibData" -> MockFields
    [] cls = "ProbeData"   -> ProbeFields
    [] cls = "BibTeXData"  -> BibTexFields
    [] cls = "Result"      -> ResultFields

TableIndex(table, name) ==
  IF \E i \in 1..Len(table) : table[i][1] = name
  THEN CHOOSE i \in 1..Len(table) : table[i][1] = name
  ELSE 0

\* self.fields[name]: a dict lookup, except __BibTexFields.__getitem__, which
\* answers a name missing from the table with a free-text rule when
\* name.isalpha() and re-raises the KeyError otherwise.
LookupField(cls, name) ==
  Bind(FieldTable(cls), LAMBDA table :
    Bind(TableIndex(table, name), LAMBDA i :
      IF i > 0 THEN Ok(table[i][2])
      ELSE IF cls = "BibTeXData" /\ StrIsAlpha(name) THEN Ok(FS("str"))
      ELSE Raise("KeyError")))

(***************************************************************************)
(* ieeexplore.py: the Result field types and validators                    *)
(***************************************************************************)
\* Result.__contentTypeValidator
contentTypeValidator(contentType) ==
  CASE contentType.s = S("Journals")    -> Ok(StrV(S("article")))
    [] contentType.s = S("Conferences") -> Ok(StrV(S("inproceedings")))
    [] contentType.s = S("Early Access") -> Ok(StrV(S("unpublished")))
    [] contentType.s = S("Standards")   -> Ok(StrV(S("booklet")))
    [] contentType.s = S("Books")       -> Ok(StrV(S("book")))
    [] contentType.s = S("Courses")     -> Ok(StrV(S("misc")))
    [] OTHER                         -> Ok(BoolV(FALSE))

\* ieeexplore.Author.__init__ on {'full_name': text}: the last token of
\* full_name.split(' ') becomes the name, the others the forenames.
ResultAuthor(fullName) ==
  LET parts == Split(fullName, <<" ">>)
  IN  [t |-> "author", name |-> parts[Len(parts)],
       forenames |-> SubSeq(parts, 1, Len(parts) - 1)]

\* ieeexplore.Author.__init__ on an author dict given in full (a sequence
\* of <<key, value>> pairs): BibData.__init__ stores the dict, then
\* __getitem__('full_name') raises KeyError when the dict has no full_name.
ResultAuthorOf(dict) ==
  IF \E i \in 1..Len(dict) : dict[i][1] = S("full_name")
  THEN Ok(ResultAuthor(dict[CHOOSE i \in 1..Len(dict) : dict[i][1] = S("full_name")][2].s))
  ELSE Raise("KeyError")

\* The loop of Result.__AuthorList.__init__ over author dicts: the first
\* exception raised ends it.
RECURSIVE ResultAuthorsOf(_)
ResultAuthorsOf(dicts) ==
  IF dicts = <<>> THEN Ok(<<>>)
  ELSE Bind(ResultAuthorOf(dicts[1]), LAMBDA a :
         IF a.exc # "none" THEN a
         ELSE Bind(ResultAuthorsOf(Tail(dicts)), LAMBDA rest :
                IF rest.exc # "none" THEN rest ELSE Ok(<< a.val >> \o rest.val)))

\* Result.__AuthorList.__init__ on {'authors': [{'full_name': text}, ...]},
\* written [t |-> "ieee", l |-> <<text, ...>>], or, with the author dicts
\* given in full, [t |-> "ieeeDicts", l |-> <<dict, ...>>]; value['authors']
\* of a str or an int is a TypeError.
ResultAuthorList(value) ==
  IF value.t = "ieeeDicts"
  THEN Bind(ResultAuthorsOf(value.l), LAMBDA r :
         IF r.exc # "none" THEN r ELSE Ok([t |-> "authors", l |-> r.val]))
  ELSE IF value.t # "ieee" THEN Raise("TypeError")
  ELSE Ok([t |-> "authors", l |-> [i \in 1..Len(value.l) |-> ResultAuthor(value.l[i])]])

(***************************************************************************)
(* bibdata.py: BibData.__check                                             *)
(***************************************************************************)
\* The characters of the model in code-point order.
AsciiOrder ==
  <<"\t", "\n", "\r", " ", "%", "+", ",", "-", ".", "/">> \o DigitChars \o <<"=", "@">>
    \o UpperChars \o <<"\\", "_">> \o LowerChars \o <<"{", "}">>

\* a < b on str: lexicographic by code point
RECURSIVE StrLess(_, _)
StrLess(a, b) ==
  IF b = <<>> THEN FALSE
  ELSE IF a = <<>> THEN TRUE
  ELSE IF Head(a) = Head(b) THEN StrLess(Tail(a), Tail(b))
  ELSE IndexOf(AsciiOrder, Head(a)) < IndexOf(AsciiOrder, Head(b))

\* a < b: defined between ints and between strs, TypeError otherwise
Less(a, b) ==
  IF a.t = "int" /\ b.t = "int" THEN Ok(a.n < b.n)
  ELSE IF a.t = "str" /\ b.t = "str" THEN Ok(StrLess(a.s, b.s))
  ELSE Raise("TypeError")

\* field['type'](value)
Coerce(type, value) ==
  CASE type = "str"              -> Ok(StrV(PyStr(value)))
    [] type = "int"              -> PyInt(value)
    [] type = "AuthorList"       -> AuthorList(value)
    [] type = "DOI"              -> DOI(value)
    [] type = "PageRange"        -> PageRange(value)
    [] type = "ResultAuthorList" -> ResultAuthorList(value)

\* field['validator'](v)
Validator(f, v) ==
  CASE f = "monthValidator"       -> monthValidator(v)
    [] f = "contentTypeValidator" -> contentTypeValidator(v)
    [] f = "DOI"                  -> DOI(v)

\* bool(valid)
Truthy(v) ==
  CASE v.t = "bool" -> v.b
    [] v.t = "str"  -> v.s # <<>>
    [] v.t = "int"  -> v.n # 0
    [] v.t = "none" -> FALSE
    [] OTHER        -> TRUE

\* v in field['values']
InValues(v, values) == \E i \in 1..Len(values) : values[i] = v

Checked(v) == [exc |-> "none", val |-> v, diag |-> "none"]

Rejected(d) == [exc |-> "none", val |-> NoneV, diag |-> d]

Raised(e) == [exc |-> e, val |-> NoneV, diag |-> "none"]

\* CheckValidator that stores the coerced value whatever the validator
\* returned.
CheckValidatorKeepsInput(field, v) ==
  Bind(IF field.validator = "none" THEN Raise("KeyError")
       ELSE Validator(field.validator, v), LAMBDA valid :
    IF valid.exc = "ValueError" THEN Rejected("FailedValidator")
    ELSE IF valid.exc \notin {"none", "KeyError"} THEN Raised(valid.exc)
    ELSE IF valid.exc = "none" /\ ~Truthy(valid.val) THEN Rejected("FailedValidator")
    ELSE IF field.hasValues /\ ~InValues(v, field.values)
    THEN Rejected("NotInAllowedSet")
    ELSE Checked(v))

\* The last two steps of __check on the coerced, bounded value v:
\* the validator (lines 283-294), then the allowed set (lines 296-301).
CheckValidator(field, v) ==
  Bind(IF field.validator = "none" THEN Raise("KeyError")
       ELSE Validator(field.validator, v), LAMBDA valid :
    Bind(IF valid.exc = "none" /\ valid.val # BoolV(TRUE) THEN valid.val ELSE v, LAMBDA v2 :
      IF valid.exc = "ValueError" THEN Rejected("FailedValidator")
      ELSE IF valid.exc \notin {"none", "KeyError"} THEN Raised(valid.exc)
      ELSE IF valid.exc = "none" /\ ~Truthy(valid.val) THEN Rejected("FailedValidator")
      ELSE IF field.hasValues /\ ~InValues(v2, field.values)
      THEN Rejected("NotInAllowedSet")
      ELSE Checked(v2)))

\* CheckBounds with the maximum tested before the minimum.
CheckBoundsMaxFirst(field, v) ==
  Bind(IF field.hasMin THEN Less(v, field.min) ELSE Raise("KeyError"), LAMBDA lo :
    Bind(IF field.hasMax THEN Less(field.max, v) ELSE Raise("KeyError"), LAMBDA hi :
      IF hi.exc \notin {"none", "KeyError"} THEN Raised(hi.exc)
      ELSE IF hi.exc = "none" /\ hi.val THEN Rejected("AboveMaximum")
      ELSE IF lo.exc \notin {"none", "KeyError"} THEN Raised(lo.exc)
      ELSE IF lo.exc = "none" /\ lo.val THEN Rejected("BelowMinimum")
      ELSE CheckValidator(field, v)))

\* The bound steps of __check (lines 269-281), then the rest.
CheckBounds(field, v) ==
  Bind(IF field.hasMin THEN Less(v, field.min) ELSE Raise("KeyError"), LAMBDA lo :
    Bind(IF field.hasMax THEN Less(field.max, v) ELSE Raise("KeyError"), LAMBDA hi :
      IF lo.exc \notin {"none", "KeyError"} THEN Raised(lo.exc)
      ELSE IF lo.exc = "none" /\ lo.val THEN Rejected("BelowMinimum")
      ELSE IF hi.exc \notin {"none", "KeyError"} THEN Raised(hi.exc)
      ELSE IF hi.exc = "none" /\ hi.val THEN Rejected("AboveMaximum")
      ELSE CheckValidator(field, v)))

\* BibData.__check(value, name) of an instance of class cls: the value to
\* store, or None with the diagnostic warned, or the exception that escapes.
Check(cls, value, name) ==
  Bind(LookupField(cls, name), LAMBDA field :
    IF field.exc # "none" THEN Rejected("UnknownField")
    ELSE Bind(Coerce(field.val.type, value), LAMBDA v :
           IF v.exc = "ValueError" THEN Rejected("TypeMismatch")
           ELSE IF v.exc # "none" THEN Raised(v.exc)
           ELSE CheckBounds(field.val, v.val)))

(***************************************************************************)
(* bibdata.py: BibData, a dict kept in insertion order                     *)
(***************************************************************************)
\* A dict is a sequence of <<key, value>> pairs with distinct keys.
DictIndex(d, k) ==
  IF \E i \in 1..Len(d) : d[i][1] = k
  THEN CHOOSE i \in 1..Len(d) : d[i][1] = k
  ELSE 0

DictHas(d, k) == DictIndex(d, k) > 0

DictGet(d, k) == d[DictIndex(d, k)][2]

\* d[k] = v: a new key goes last, a present key keeps its place
DictSet(d, k, v) ==
  IF DictHas(d, k) THEN [d EXCEPT ![DictIndex(d, k)] = <<k, v>>]
  ELSE Append(d, <<k, v>>)

DictKeys(d) == [i \in 1..Len(d) |-> d[i][1]]

Diag(kind, name) == [k |-> kind, f |-> name]

\* What a call on a record leaves behind: the record's dict, the diagnostics
\* warned in order, and the exception that escaped ("none" when it returned).
Outcome(data, dg, e) == [data |-> data, diags |-> dg, exc |-> e]

\* SetItem under the other policy: the value already held is kept.
SetItemKeepFirst(cls, data, name, value) ==
  Bind(Check(cls, value, name), LAMBDA v :
    IF v.exc # "none" THEN Outcome(data, <<>>, v.exc)
    ELSE IF v.val = NoneV THEN Outcome(data, << Diag(v.diag, name) >>, "none")
    ELSE IF DictHas(data, name) THEN Outcome(data, << Diag("DuplicateField", name) >>, "none")
    ELSE Outcome(DictSet(data, name, v.val), <<>>, "none"))

\* SetItem with the presence test before the check: a rejected value for a
\* field already held warns of the overwrite as well.
SetItemWarnFirst(cls, data, name, value) ==
  Bind(Check(cls, value, name), LAMBDA v :
    IF v.exc # "none" THEN Outcome(data, <<>>, v.exc)
    ELSE IF v.val = NoneV
    THEN Outcome(data,
                 << Diag(v.diag, name) >> \o
                   (IF DictHas(data, name) THEN << Diag("DuplicateField", name) >> ELSE <<>>),
                 "none")
    ELSE Outcome(DictSet(data, name, v.val),
                 IF DictHas(data, name) THEN << Diag("DuplicateField", name) >> ELSE <<>>,
                 "none"))

\* BibData.__setitem__(name, value) on an instance of cls holding data
SetItem(cls, data, name, value) ==
  Bind(Check(cls, value, name), LAMBDA v :
    IF v.exc # "none" THEN Outcome(data, <<>>, v.exc)
    ELSE IF v.val = NoneV THEN Outcome(data, << Diag(v.diag, name) >>, "none")
    ELSE Outcome(DictSet(data, name, v.val),
                 IF DictHas(data, name) THEN << Diag("DuplicateField", name) >> ELSE <<>>,
                 "none"))

\* The loop of BibData.__init__(data) over data.items(), from item i on
RECURSIVE InitItems(_, _, _, _)
InitItems(cls, items, i, acc) ==
  IF i > Len(items) THEN acc
  ELSE Bind(Check(cls, items[i][2], items[i][1]), LAMBDA v :
         IF v.exc # "none" THEN Outcome(acc.data, acc.diags, v.exc)
         ELSE IF v.val = NoneV
         THEN InitItems(cls, items, i + 1,
                Outcome(acc.data, Append(acc.diags, Diag(v.diag, items[i][1])), "none"))
         ELSE InitItems(cls, items, i + 1,
                Outcome(DictSet(acc.data, items[i][1], v.val), acc.diags, "none")))

\* BibData.__init__(data) for a dict of raw values
BibDataInit(cls, items) == InitItems(cls, items, 1, Outcome(<<>>, <<>>, "none"))

(***************************************************************************)
(* State                                                                   *)
(***************************************************************************)
VARIABLES
  call,     \* the operation last performed on the engine: its name, its
            \* arguments and, for a pure call, its outcome
  buf,      \* the characters of the input already produced and not yet read
  nfrag,    \* how many pieces of input have been produced
  eof,      \* whether read(1) has returned '' (it does so ever after)
  stack,    \* the parser's call stack: the locals of parseFile, parseEntry
            \* and of each parseGroup, the running call last
  coll,     \* the BibFile's records (BibDataSet.__data)
  out,      \* the text written to the *.bib file
  wpos,     \* how many records of coll write's loop has gone through
  heap,     \* the dicts that BibData objects hold, by address
  objs,     \* the BibData objects: class and address of the dict
  lists,    \* the lists that BibDataSet objects hold, by address: each a
            \* sequence of positions in objs
  sets,     \* the BibDataSet objects: class and address of the list
  diags,    \* the diagnostics emitted so far, in order
  exc       \* the exception that escaped to the caller, "none" if none did

vars == <<call, buf, nfrag, eof, stack, coll, out, wpos, heap, objs, lists, sets, diags, exc>>

parserVars == <<buf, nfrag, eof, stack>>

writerVars == <<out, wpos>>

recordVars == <<heap, objs, lists, sets>>

NoCall == [op |-> "none"]

ParserIdle == buf = <<>> /\ nfrag = 0 /\ eof = FALSE /\ stack = <<>>

WriterIdle == out = <<>> /\ wpos = 0

RecordsIdle == heap = <<>> /\ objs = <<>> /\ lists = <<>> /\ sets = <<>>

(***************************************************************************)
(* bibtex.py: BibFile.parseFile, parseEntry, parseGroup                    *)
(***************************************************************************)
\* bibFile.read(1) at the end of the input
EndOfInput == ""

\* The locals of a running parseFile, parseEntry, parseGroup; prevMode is
\* "unset" and a text is empty until the code first assigns them.
FileFrame(mode, prevMode, entryType) ==
  [fn |-> "parseFile", mode |-> mode, prevMode |-> prevMode, entryType |-> entryType]

EntryFrame(mode, prevMode, escaped, fieldName, fieldValue, bibData) ==
  [fn |-> "parseEntry", mode |-> mode, prevMode |-> prevMode, escaped |-> escaped,
   fieldName |-> fieldName, fieldValue |-> fieldValue, bibData |-> bibData]

GroupFrame(escaped, commented, group) ==
  [fn |-> "parseGroup", escaped |-> escaped, commented |-> commented, group |-> group]

\* What one loop iteration does: the locals after it, the diagnostics it
\* printed, the exception it let escape, and whether it goes on reading
\* ("none"), returns, or calls parseEntry or parseGroup.
Step(frame, dg, e, act) == [frame |-> frame, diags |-> dg, exc |-> e, act |-> act]

\* FileChar that resumes OUTSIDE after every comment.
FileCharResumeOutside(f, c) ==
  IF c = EndOfInput THEN Step(f, <<>>, "none", "return")
  ELSE IF f.mode = "OUTSIDE"
  THEN IF IsSpace(c) THEN Step(f, <<>>, "none", "none")
       ELSE IF c = "@"
       THEN Step([f EXCEPT !.mode = "ENTRY_TYPE", !.entryType = <<>>], <<>>, "none", "none")
       ELSE IF c = "%"
       THEN Step([f EXCEPT !.prevMode = f.mode, !.mode = "COMMENT"], <<>>, "none", "none")
       ELSE Step(f, << Diag("UnexpectedCharacter", <<c>>) >>, "none", "none")
  ELSE IF f.mode = "COMMENT"
  THEN IF c = "\n" THEN Step([f EXCEPT !.mode = "OUTSIDE"], <<>>, "none", "none")
       ELSE Step(f, <<>>, "none", "none")
  ELSE IF c = "{" THEN Step(f, <<>>, "none", "callEntry")
       ELSE IF c = "%"
       THEN Step([f EXCEPT !.prevMode = f.mode, !.mode = "COMMENT"], <<>>, "none", "none")
       ELSE Step([f EXCEPT !.entryType = f.entryType \o <<c>>], <<>>, "none", "none")

\* One iteration of parseFile's loop on the character c.
FileChar(f, c) ==
  IF c = EndOfInput THEN Step(f, <<>>, "none", "return")
  ELSE IF f.mode = "OUTSIDE"
  THEN IF IsSpace(c) THEN Step(f, <<>>, "none", "none")
       ELSE IF c = "@"
       THEN Step([f EXCEPT !.mode = "ENTRY_TYPE", !.entryType = <<>>], <<>>, "none", "none")
       ELSE IF c = "%"
       THEN Step([f EXCEPT !.prevMode = f.mode, !.mode = "COMMENT"], <<>>, "none", "none")
       ELSE Step(f, << Diag("UnexpectedCharacter", <<c>>) >>, "none", "none")
  ELSE IF f.mode = "COMMENT"
  THEN IF c = "\n" THEN Step([f EXCEPT !.mode = f.prevMode], <<>>, "none", "none")
       ELSE Step(f, <<>>, "none", "none")
  ELSE IF c = "{" THEN Step(f, <<>>, "none", "callEntry")
       ELSE IF c = "%"
       THEN Step([f EXCEPT !.prevMode = f.mode, !.mode = "COMMENT"], <<>>, "none", "none")
       ELSE Step([f EXCEPT !.entryType = f.entryType \o <<c>>], <<>>, "none", "none")

\* bibData[name] = value inside parseEntry, then "then" when it returned.
EntryStore(f, name, value, then) ==
  Bind(SetItem("BibTeXData", f.bibData, name, StrV(value)), LAMBDA o :
    Step([f EXCEPT !.bibData = o.data], o.diags, o.exc,
         IF o.exc = "none" THEN then ELSE "raise"))

\* parseEntry's locals on entry: bibData = BibTeXData({'content_type': entryType})
EntryStart(entryType) ==
  Bind(BibDataInit("BibTeXData", << <<S("content_type"), StrV(entryType)>> >>), LAMBDA o :
    Step(EntryFrame("OUTSIDE", "unset", FALSE, <<>>, <<>>, o.data), o.diags, o.exc,
         IF o.exc = "none" THEN "none" ELSE "raise"))

\* One iteration of parseEntry's loop on the character c.
EntryChar(f, c) ==
  IF c = EndOfInput
  THEN Step(f, << Diag("UnexpectedEndOfInput", S("entry")) >>, "none", "return")
  ELSE IF f.mode = "OUTSIDE"
  THEN IF c = "}" THEN Step(f, <<>>, "none", "return")
       ELSE IF IsSpace(c) THEN Step(f, <<>>, "none", "none")
       ELSE IF c = "%" THEN Step([f EXCEPT !.prevMode = f.mode], <<>>, "none", "none")
       ELSE IF IsAlnum(c)
       THEN Step([f EXCEPT !.mode = "FIELD_NAME", !.fieldName = <<c>>], <<>>, "none", "none")
       ELSE Step(f, <<>>, "none", "none")
  ELSE IF f.mode = "COMMENT"
  THEN IF c = "\n" THEN Step([f EXCEPT !.mode = f.prevMode], <<>>, "none", "none")
       ELSE Step(f, <<>>, "none", "none")
  ELSE IF f.mode = "FIELD_NAME"
  THEN IF c = "}" THEN EntryStore(f, S("key"), Strip(f.fieldName), "return")
       ELSE IF c = "="
       THEN Step([f EXCEPT !.mode = "FIELD_VALUE", !.fieldValue = <<>>], <<>>, "none", "none")
       ELSE IF c = ","
       THEN EntryStore([f EXCEPT !.mode = "OUTSIDE"], S("key"), Strip(f.fieldName), "none")
       ELSE IF c = "%"
       THEN Step([f EXCEPT !.fieldName = f.fieldName \o <<" ">>, !.prevMode = f.mode,
                           !.mode = "COMMENT"], <<>>, "none", "none")
       ELSE Step([f EXCEPT !.fieldName = f.fieldName \o <<c>>], <<>>, "none", "none")
  ELSE IF c = "}" THEN EntryStore(f, Strip(f.fieldName), Strip(f.fieldValue), "return")
       ELSE IF c = "\\" THEN Step([f EXCEPT !.escaped = ~f.escaped], <<>>, "none", "none")
       ELSE IF c = "," /\ ~f.escaped
       THEN EntryStore([f EXCEPT !.mode = "OUTSIDE"], Strip(f.fieldName),
                       Strip(f.fieldValue), "none")
       ELSE IF c = "%" /\ ~f.escaped
       THEN Step([f EXCEPT !.prevMode = f.mode, !.mode = "COMMENT"], <<>>, "none", "none")
       ELSE IF c = "{" /\ ~f.escaped THEN Step(f, <<>>, "none", "callGroup")
       ELSE Step([f EXCEPT !.fieldValue = f.fieldValue \o <<c>>], <<>>, "none", "none")

\* GroupChar with a silent return at the end of the input.
GroupCharSilentEnd(f, c) ==
  IF c = EndOfInput
  THEN Step(f, <<>>, "none", "return")
  ELSE IF f.commented
  THEN Step([f EXCEPT !.commented = (c # "\n")], <<>>, "none", "none")
  ELSE IF f.escaped
  THEN Step([f EXCEPT !.group = f.group \o <<c>>, !.escaped = FALSE], <<>>, "none", "none")
  ELSE Bind(IF c = "\\" THEN [f EXCEPT !.escaped = ~f.escaped] ELSE f, LAMBDA g :
         IF c = "%" THEN Step([g EXCEPT !.commented = TRUE], <<>>, "none", "none")
         ELSE IF c = "}" THEN Step(g, <<>>, "none", "return")
         ELSE IF c = "{" THEN Step(g, <<>>, "none", "callGroup")
         ELSE Step([g EXCEPT !.group = g.group \o <<c>>], <<>>, "none", "none"))

\* One iteration of parseGroup's loop on the character c.
GroupChar(f, c) ==
  IF c = EndOfInput
  THEN Step(f, << Diag("UnexpectedEndOfInput", S("group")) >>, "none", "return")
  ELSE IF f.commented
  THEN Step([f EXCEPT !.commented = (c # "\n")], <<>>, "none", "none")
  ELSE IF f.escaped
  THEN Step([f EXCEPT !.group = f.group \o <<c>>, !.escaped = FALSE], <<>>, "none", "none")
  ELSE Bind(IF c = "\\" THEN [f EXCEPT !.escaped = ~f.escaped] ELSE f, LAMBDA g :
         IF c = "%" THEN Step([g EXCEPT !.commented = TRUE], <<>>, "none", "none")
         ELSE IF c = "}" THEN Step(g, <<>>, "none", "return")
         ELSE IF c = "{" THEN Step(g, <<>>, "none", "callGroup")
         ELSE Step([g EXCEPT !.group = g.group \o <<c>>], <<>>, "none", "none"))

\* BibDataSet.dataType, which BibFile inherits
BibFileDataType == "BibData"

\* A record object: its class and the dict it holds.
Record(cls, data) == [cls |-> cls, data |-> data]

\* BibDataSet.__iadd__(other) for a BibData other: the list gains
\* dataType(other), a record of the collection's dataType holding other's dict.
IAddRecord(list, dataType, other) == Append(list, Record(dataType, other.data))

\* The caller's locals after the callee returned value to it: parseFile
\* appends the record and resumes OUTSIDE (the append is applied to coll),
\* parseEntry splices the group text into fieldValue, parseGroup re-wraps it.
Resume(caller, value) ==
  CASE caller.fn = "parseFile"  -> [caller EXCEPT !.mode = "OUTSIDE"]
    [] caller.fn = "parseEntry" -> [caller EXCEPT !.fieldValue = caller.fieldValue \o value]
    [] caller.fn = "parseGroup" ->
         [caller EXCEPT !.group = caller.group \o <<"{">> \o value \o <<"}">>]

\* The parser's call stack, the collection, the diagnostics and the escaped
\* exception, as one value.
Parser(stk, recs, dg, e) == [stack |-> stk, coll |-> recs, diags |-> dg, exc |-> e]

\* The parser after the iteration r of its running call (the last frame of
\* p.stack) has taken effect: the call reads on, raises, calls parseEntry or
\* parseGroup, or returns to its caller.
After(p, r) ==
  Bind(SubSeq(p.stack, 1, Len(p.stack) - 1), LAMBDA callers :
    CASE r.act = "none" ->
           Parser(Append(callers, r.frame), p.coll, p.diags \o r.diags, p.exc)
      [] r.act = "raise" ->
           Parser(<<>>, p.coll, p.diags \o r.diags, r.exc)
      [] r.act = "callGroup" ->
           Parser(Append(callers, r.frame) \o << GroupFrame(FALSE, FALSE, <<>>) >>,
                  p.coll, p.diags \o r.diags, p.exc)
      [] r.act = "callEntry" ->
           Bind(EntryStart(Lower(Strip(r.frame.entryType))), LAMBDA s :
             Parser(IF s.exc = "none" THEN Append(callers, r.frame) \o << s.frame >>
                    ELSE <<>>,
                    p.coll, p.diags \o r.diags \o s.diags, s.exc))
      [] r.act = "return" /\ r.frame.fn = "parseFile" ->
           Parser(<<>>, p.coll, p.diags \o r.diags, p.exc)
      [] r.act = "return" /\ r.frame.fn = "parseEntry" ->
           Parser(Append(SubSeq(callers, 1, Len(callers) - 1),
                         Resume(callers[Len(callers)], r.frame.bibData)),
                  IAddRecord(p.coll, BibFileDataType, Record("BibTeXData", r.frame.bibData)),
                  p.diags \o r.diags, p.exc)
      [] r.act = "return" /\ r.frame.fn = "parseGroup" ->
           Parser(Append(SubSeq(callers, 1, Len(callers) - 1),
                         Resume(callers[Len(callers)], cleanGroup(r.frame.group))),
                  p.coll, p.diags \o r.diags, p.exc))

(***************************************************************************)
(* ieeexplore.py: Result.__getitem__ and __contains__;                     *)
(* bibdata.py: BibData.__getitem__ and __contains__                        *)
(***************************************************************************)
\* Result.__getitem__(name) when name is not a stored field: the computed
\* fields (those read from a date field raise KeyError here, the date
\* fields being outside ResultFields).
ResultComputed(data, name) ==
  IF name = S("pages")
  THEN IF DictHas(data, S("start_page")) /\ DictHas(data, S("end_page"))
       THEN Ok(StrV(PyStr(DictGet(data, S("start_page"))) \o S("--")
                    \o PyStr(DictGet(data, S("end_page")))))
       ELSE Raise("KeyError")
  ELSE IF name = S("publication_code") /\ DictHas(data, S("doi"))
  THEN Bind(Split(DictGet(data, S("doi")).suffix, <<".">>), LAMBDA parts :
         IF Len(parts) > 1 THEN Ok(StrV(parts[1])) ELSE Raise("KeyError"))
  ELSE Raise("KeyError")

\* bibItem[name]
GetItem(item, name) ==
  IF DictHas(item.data, name) THEN Ok(DictGet(item.data, name))
  ELSE IF item.cls = "Result" THEN ResultComputed(item.data, name)
  ELSE Raise("KeyError")

\* name in bibItem
Contains(item, name) == GetItem(item, name).exc = "none"

(***************************************************************************)
(* bibtex.py: BibFile.bibTypes, fieldAliases, __getField, __genKey, write  *)
(***************************************************************************)
\* A list of names, written as one space-separated literal.
Names(str) == IF str = "" THEN <<>> ELSE Split(S(str), <<" ">>)

BibType(name, required, optional) ==
  [name |-> S(name), required |-> Names(required), optional |-> Names(optional)]

\* BibFile.bibTypes, in table order
bibTypes ==
  << BibType("article", "author title journal year volume", "number pages month doi"),
     BibType("book", "author title publisher year",
             "editor volume number series address edition month"),
     BibType("booklet", "title", "author howpublished address month year"),
     BibType("inbook", "author title pages publisher year",
             "editor chapter volume number series type address edition month"),
     BibType("incollection", "author title booktitle publisher year",
             "editor volume number series type chapter pages address edition month"),
     BibType("inproceedings", "author title booktitle year",
             "editor volume number series pages address month organization publisher"),
     BibType("manual", "title", "author organization address edition month year"),
     BibType("mastersthesis", "author title school year", "type address month"),
     BibType("misc", "", "author title howpublished month year"),
     BibType("phdthesis", "author title school year", "type address month"),
     BibType("proceedings", "title year",
             "editor volume number series address month publisher organization"),
     BibType("techreport", "author title institution year", "type number address month"),
     BibType("unpublished", "author title", "month year") >>

Alias(field, aliases) == [field |-> S(field), aliases |-> Names(aliases)]

\* BibFile.fieldAliases, in table order
fieldAliases ==
  << Alias("address", "conference_location"), Alias("author", "authors"),
     Alias("booktitle", "publication_title"), Alias("chapter", ""), Alias("crossref", ""),
     Alias("doi", ""), Alias("edition", ""), Alias("editor", ""), Alias("howpublished", ""),
     Alias("institution", ""), Alias("journal", "publication_title"),
     Alias("month", "publication_month conference_month"),
     Alias("number", "issue is_number"), Alias("organization", ""), Alias("pages", ""),
     Alias("publisher", ""), Alias("school", ""), Alias("series", ""), Alias("title", ""),
     Alias("type", ""), Alias("volume", ""),
     Alias("year", "publication_year conference_year") >>

\* self.fieldAliases[field], empty when the table has no such key
AliasesOf(field) ==
  IF \E i \in 1..Len(fieldAliases) : fieldAliases[i].field = field
  THEN fieldAliases[CHOOSE i \in 1..Len(fieldAliases) : fieldAliases[i].field = field].aliases
  ELSE <<>>

\* The first name of names that bibItem contains, <<>> standing for none
\* (no field has the empty name in a written record's lookup).
FirstContained(item, names) ==
  IF \E i \in 1..Len(names) : Contains(item, names[i])
  THEN << names[CHOOSE i \in 1..Len(names) :
                  Contains(item, names[i]) /\ \A j \in 1..(i - 1) : ~Contains(item, names[j])] >>
  ELSE <<>>

\* __getField(bibItem, field, required): <<name>> of the record field that
\* holds field, under its own name or its first present alias; <<>> for None.
getField(item, field) == FirstContained(item, <<field>> \o AliasesOf(field))

\* bibItem[self.__getField(bibItem, field)]; bibItem[None] is a KeyError
GetField(item, field) ==
  Bind(getField(item, field), LAMBDA found :
    IF found = <<>> THEN Raise("KeyError") ELSE GetItem(item, found[1]))

\* authors[0]['name'] and the initials of authors[1:], joined
KeyNames(authors) ==
  IF authors.t = "authors"
  THEN IF authors.l = <<>> THEN Raise("IndexError")
       ELSE IF \E i \in 2..Len(authors.l) : authors.l[i].name = <<>>
       THEN Raise("IndexError")
       ELSE Ok(authors.l[1].name
               \o [i \in 1..(Len(authors.l) - 1) |-> UpperC(authors.l[i + 1].name[1])])
  ELSE IF authors.t = "str" /\ authors.s = <<>> THEN Raise("IndexError")
  ELSE Raise("TypeError")

\* The text a try: key += ... except KeyError: pass adds to the key.
KeyPart(v) == IF v.exc = "none" THEN PyStr(v.val) ELSE <<>>

\* __genKey with the publication code placed before the year.
genKeyCodeBeforeYear(item) ==
  Bind(GetField(item, S("author")), LAMBDA authors :
    IF authors.exc # "none" THEN authors
    ELSE Bind(KeyNames(authors.val), LAMBDA names :
           IF names.exc # "none" THEN names
           ELSE IF ~DictHas(item.data, S("title")) THEN Raise("KeyError")
           ELSE Ok(names.val \o KeyPart(GetField(item, S("publication_code")))
                   \o KeyPart(GetField(item, S("year"))))))

\* __genKey(bibItem); its print(bibItem) formats the record with
\* BibData.__str__, whose self.__data['title'] is a KeyError when the record
\* stores no title.
genKey(item) ==
  Bind(GetField(item, S("author")), LAMBDA authors :
    IF authors.exc # "none" THEN authors
    ELSE Bind(KeyNames(authors.val), LAMBDA names :
           IF names.exc # "none" THEN names
           ELSE IF ~DictHas(item.data, S("title")) THEN Raise("KeyError")
           ELSE Ok(names.val \o KeyPart(GetField(item, S("year")))
                   \o KeyPart(GetField(item, S("publication_code"))))))

\* What write has produced for one record: the text written to the file,
\* fieldsDone, the diagnostics, and the exception that escaped.
Written(text, done, dg, e) == [text |-> text, done |-> done, diags |-> dg, exc |-> e]

\* bibFile.write(f"  {f} = {{{value}}},\n")
FieldLine(f, value) == S("  ") \o f \o S(" = {") \o PyStr(value) \o S("},\n")

\* The loops over the entry type's required (lines 504-508) and optional
\* (lines 510-514) names, from names[i] on.
RECURSIVE SchemaPass(_, _, _, _, _)
SchemaPass(item, names, required, i, w) ==
  IF i > Len(names) \/ w.exc # "none" THEN w
  ELSE Bind(getField(item, names[i]), LAMBDA found :
         SchemaPass(item, names, required, i + 1,
           IF found = <<>>
           THEN Written(w.text, w.done,
                        IF required
                        THEN Append(w.diags, Diag("MissingRequiredField", names[i]))
                        ELSE w.diags, w.exc)
           ELSE Written(w.text \o FieldLine(names[i], GetItem(item, found[1]).val),
                        Append(w.done, found[1]), w.diags, w.exc)))

\* The inner loop of the alias pass (lines 517-524) for one canonical field,
\* from aliases[j] on: the line it writes, if any.
RECURSIVE AliasLine(_, _, _, _, _)
AliasLine(item, field, aliases, j, done) ==
  IF j > Len(aliases) THEN <<>>
  ELSE IF \E k \in 1..Len(done) : done[k] = aliases[j] THEN <<>>
  ELSE Bind(GetItem(item, aliases[j]), LAMBDA v :
         IF v.exc = "none" THEN FieldLine(field, v.val)
         ELSE AliasLine(item, field, aliases, j + 1, done))

\* The alias pass (lines 516-524), from fieldAliases[k] on.
RECURSIVE AliasPass(_, _, _)
AliasPass(item, k, w) ==
  IF k > Len(fieldAliases) \/ w.exc # "none" THEN w
  ELSE AliasPass(item, k + 1,
         Written(w.text \o AliasLine(item, fieldAliases[k].field,
                                     fieldAliases[k].aliases, 1, w.done),
                 w.done, w.diags, w.exc))

\* The last pass (lines 526-529) over the record's own fields, from the
\* i-th on.
RECURSIVE OtherPass(_, _, _)
OtherPass(item, i, w) ==
  IF i > Len(item.data) \/ w.exc # "none" THEN w
  ELSE OtherPass(item, i + 1,
         IF \E k \in 1..Len(w.done) : w.done[k] = item.data[i][1] THEN w
         ELSE Written(w.text \o FieldLine(item.data[i][1], item.data[i][2]),
                      w.done, w.diags, w.exc))

\* self.bibTypes[contentType]
BibTypeOf(contentType) ==
  IF \E i \in 1..Len(bibTypes) : bibTypes[i].name = contentType
  THEN Ok(bibTypes[CHOOSE i \in 1..Len(bibTypes) : bibTypes[i].name = contentType])
  ELSE Raise("KeyError")

\* The body of write's loop for one record (lines 501-530).
WriteItem(item) ==
  Bind(GetItem(item, S("content_type")), LAMBDA type :
    IF type.exc # "none" THEN Written(<<>>, <<>>, <<>>, type.exc)
    ELSE IF type.val.t # "str" THEN Written(<<>>, <<>>, <<>>, "AttributeError")
    ELSE Bind(genKey(item), LAMBDA key :
      IF key.exc # "none" THEN Written(<<>>, <<>>, <<>>, key.exc)
      ELSE Bind(S("@") \o Upper(type.val.s) \o S(" {") \o key.val \o S(",\n"), LAMBDA head :
        Bind(BibTypeOf(type.val.s), LAMBDA bibType :
          IF bibType.exc # "none" THEN Written(head, <<>>, <<>>, bibType.exc)
          ELSE Bind(OtherPass(item, 1,
                      AliasPass(item, 1,
                        SchemaPass(item, bibType.val.optional, FALSE, 1,
                          SchemaPass(item, bibType.val.required, TRUE, 1,
                            Written(head, << S("content_type") >>, <<>>, "none"))))),
                    LAMBDA w : Written(w.text \o S("}\n\n"), w.done, w.diags, w.exc))))))

(***************************************************************************)
(* The validation pipeline on its own                                      *)
(***************************************************************************)
MaxRawInt == 4

T(s) == StrV(s)

RawInts == { IntV(n) : n \in (-1..MaxRawInt) \cup ((CurrentYear - 1)..(CurrentYear + 1)) }

RawTexts ==
  { T(<<>>), T(<<"x">>), T(<<"0">>), T(<<"1">>), T(<<" ", "3">>), T(<<"1", "2">>),
    T(<<"1", "3">>), T(<<"2", "0", "2", "6">>), T(<<"2", "0", "2", "7">>),
    T(<<"1", "2", "-", "-", "1", "4">>), T(<<"J", "a", "n">>), T(<<"M", "a", "r", "c", "h">>),
    T(<<"a">>), T(<<"b">>), T(<<"b", "x">>), T(<<"z">>), T(S("article")), T(S("Journals")),
    T(S("IEEE")), T(<<"1", "0", ".", "1", "2", "3", "4", "/", "a", ".", "b">>),
    T(<<"S", "m", "i", "t", "h", ",", " ", "J", "o", "h", "n">>), T(<<"X">>),
    T(S("january")), T(S("february")), T(S("feb")) }

RawValues == RawInts \cup RawTexts \cup {NoneV}

ValidateNames ==
  [BibData     |-> {S("field1")},
   MockBibData |-> {S("field0"), S("field1")},
   ProbeData   |-> {S("n"), S("m"), S("k")},
   BibTeXData  |-> {S("year"), S("volume"), S("month"), S("pages"), S("content_type"), S("doi"),
                    S("author"), S("title"), S("file"), S("field1")},
   Result      |-> {S("content_type"), S("doi"), S("publisher"), S("publication_year"), S("volume"),
                    S("year")}]

\* One __check call on a fresh instance of cls.
Validate(cls, name, value) ==
  /\ call = NoCall
  /\ call' = [op |-> "check", cls |-> cls, name |-> name, value |-> value,
              out |-> Check(cls, value, name)]
  /\ UNCHANGED <<coll, diags, exc>>
  /\ UNCHANGED <<parserVars, writerVars, recordVars>>

InitValidate ==
  /\ call = NoCall
  /\ coll = <<>>
  /\ diags = <<>>
  /\ exc = "none"
  /\ ParserIdle /\ WriterIdle /\ RecordsIdle

NextValidate ==
  \E cls \in Classes : \E name \in ValidateNames[cls] : \E value \in RawValues :
    Validate(cls, name, value)

SpecValidate == InitValidate /\ [][NextValidate]_vars

(***************************************************************************)
(* The validation pipeline applied to its own result                       *)
(***************************************************************************)
\* A second __check call, on the value the first one returned for storing.
Revalidate ==
  /\ call.op = "check"
  /\ call.out.exc = "none" /\ call.out.val # NoneV
  /\ call' = [op |-> "recheck", cls |-> call.cls, name |-> call.name,
              value |-> call.out.val, out |-> Check(call.cls, call.out.val, call.name)]
  /\ UNCHANGED <<coll, diags, exc>>
  /\ UNCHANGED <<parserVars, writerVars, recordVars>>

NextRevalidate == NextValidate \/ Revalidate

SpecRevalidate == InitValidate /\ [][NextRevalidate]_vars

(***************************************************************************)
(* Parsing a stream: one action per loop iteration of the running call     *)
(***************************************************************************)
MaxFrags == 3

\* The pieces the input is made of.
Fragments ==
  { <<"@", "a", "r", "t", "i", "c", "l", "e", "{">>,
    <<"k", ",">>,
    <<"p", "a", "g", "e", "s", "=">>,
    <<"y", "e", "a", "r", "=">>,
    <<"1", "2">>,
    <<"{">>, <<"}">>, <<"%">>, <<"\n">>, <<"\\">>, <<",">>, <<" ">> }

\* How the input may begin.
Prefixes ==
  { <<>>,
    <<"@", "a", "r", "t">>,
    <<"@", "a", "r", "t", "i", "c", "l", "e", "{">>,
    <<"@", "a", "r", "t", "i", "c", "l", "e", "{", "y", "e", "a", "r", "=", "1", "2", ",",
      "t", "i", "t", "l", "e", "=">> }

\* What read(1) may return next.
NextChars ==
  IF buf # <<>> THEN { Head(buf) }
  ELSE { Head(fr) : fr \in Fragments } \cup { EndOfInput }

\* c = bibFile.read(1): the next character of the input, which is produced
\* piece by piece, or '' at its end.
Read(c) ==
  \/ /\ buf # <<>>
     /\ c = Head(buf)
     /\ buf' = Tail(buf)
     /\ UNCHANGED <<nfrag, eof>>
  \/ /\ buf = <<>> /\ ~eof /\ nfrag < MaxFrags
     /\ \E fr \in Fragments : c = Head(fr) /\ buf' = Tail(fr)
     /\ nfrag' = nfrag + 1
     /\ UNCHANGED eof
  \/ /\ buf = <<>>
     /\ c = EndOfInput
     /\ eof' = TRUE
     /\ UNCHANGED <<buf, nfrag>>

Top == stack[Len(stack)]

\* The iteration r of the running call takes effect.
Apply(r) ==
  /\ UNCHANGED <<call, writerVars, recordVars>>
  /\ \E p \in { After(Parser(stack, coll, diags, exc), r) } :
       /\ stack' = p.stack
       /\ coll' = p.coll
       /\ diags' = p.diags
       /\ exc' = p.exc

\* One iteration of parseFile's loop.
FileStep ==
  /\ stack # <<>> /\ Top.fn = "parseFile"
  /\ \E c \in NextChars : Read(c) /\ Apply(FileChar(Top, c))

\* One iteration of parseEntry's loop.
EntryStep ==
  /\ stack # <<>> /\ Top.fn = "parseEntry"
  /\ \E c \in NextChars : Read(c) /\ Apply(EntryChar(Top, c))

\* One iteration of parseGroup's loop.
GroupStep ==
  /\ stack # <<>> /\ Top.fn = "parseGroup"
  /\ \E c \in NextChars : Read(c) /\ Apply(GroupChar(Top, c))

\* parseFile(bibFile) has just been called on an empty BibFile.
InitParse ==
  /\ call = NoCall
  /\ buf \in Prefixes
  /\ nfrag = 0
  /\ eof = FALSE
  /\ stack = << FileFrame("OUTSIDE", "unset", <<>>) >>
  /\ coll = <<>>
  /\ diags = <<>>
  /\ exc = "none"
  /\ WriterIdle /\ RecordsIdle

NextParse == FileStep \/ EntryStep \/ GroupStep

SpecParse == InitParse /\ [][NextParse]_vars

(***************************************************************************)
(* Writing a collection: BibFile.write, one record per step                *)
(***************************************************************************)
MaxItems == 2

\* A raw str value under a field name, as in a dict given to a constructor.
Raw(name, text) == << S(name), StrV(S(text)) >>

\* A raw int value under a field name.
RawInt(name, n) == << S(name), IntV(n) >>

\* The 'authors' value of an IEEE Xplore result: {'authors': [{'full_name': ...}, ...]}
RawAuthors(fullNames) == << S("authors"), [t |-> "ieee", l |-> [i \in 1..Len(fullNames) |-> S(fullNames[i])]] >>

Input(cls, items) == [cls |-> cls, items |-> items]

\* The dicts the written records are constructed from: BibTeXData(...) put in
\* a BibFile, and Result(...) of a ResultSet the BibFile is constructed from.
WriteInputs ==
  { Input("BibTeXData", << Raw("content_type", "article"), Raw("author", "Smith, John"),
                           Raw("title", "A Title"), Raw("journal", "J"),
                           Raw("year", "2020"), Raw("volume", "1") >>),
    Input("BibTeXData", << Raw("content_type", "article"), Raw("title", "A Title"),
                           Raw("year", "2020") >>),
    Input("BibTeXData", << Raw("content_type", "article"), Raw("author", "Smith, John"),
                           Raw("year", "2020") >>),
    Input("BibTeXData", << Raw("content_type", "article"), Raw("author", "Smith, John"),
                           Raw("title", "T"), Raw("issue", "4"), Raw("number", "3") >>),
    Input("BibTeXData", << Raw("note", "n"), Raw("content_type", "misc"),
                           Raw("author", "Dupont, Jean and Li, Wei"),
                           Raw("title", "T"), Raw("year", "1999") >>),
    Input("BibTeXData", << Raw("content_type", "book"), Raw("pages", "12--14"),
                           Raw("title", "T"), Raw("author", "Doe, Jane") >>),
    Input("Result", << Raw("content_type", "Journals"), RawAuthors(<<"John Smith", "Wei Li">>),
                       Raw("title", "A Title"), Raw("publication_title", "J"),
                       RawInt("publication_year", 2020), Raw("doi", "10.1109/TPEL.2020.1"),
                       RawInt("volume", 7) >>),
    Input("Result", << Raw("content_type", "Conferences"), RawAuthors(<<"Jane Doe">>),
                       Raw("title", "T"), Raw("doi", "10.1109/12345"),
                       RawInt("start_page", 10), RawInt("end_page", 20) >>),
    Input("Result", << Raw("content_type", "Courses"), RawAuthors(<<"Jane Doe">>),
                       Raw("publication_title", "P"), Raw("title", "T") >>),
    Input("Result", << Raw("content_type", "Courses"), Raw("title", "T") >>) }

\* The record a BibFile holds for an input: a BibFile given a list wraps
\* each BibTeXData in its dataType; one given a ResultSet shares its list of
\* Result objects.
Stored(in) ==
  Record(IF in.cls = "Result" THEN "Result" ELSE BibFileDataType,
         BibDataInit(in.cls, in.items).data)

\* One iteration of write's loop over the collection: the next record's key
\* and text, the exception leaving write if one is raised.
WriteStep ==
  /\ call.op \in {"none", "write"}
  /\ exc = "none"
  /\ wpos < Len(coll)
  /\ \E w \in { WriteItem(coll[wpos + 1]) } :
       /\ call' = [op |-> "write", item |-> coll[wpos + 1], key |-> genKey(coll[wpos + 1]),
                   w |-> w]
       /\ out' = out \o w.text
       /\ diags' = diags \o w.diags
       /\ exc' = w.exc
       /\ wpos' = IF w.exc = "none" THEN wpos + 1 ELSE wpos
  /\ UNCHANGED <<coll, parserVars, recordVars>>

InitWrite ==
  /\ call = NoCall
  /\ \E n \in 1..MaxItems :
       coll \in { [i \in 1..n |-> Stored(f[i])] : f \in [1..n -> WriteInputs] }
  /\ diags = <<>>
  /\ exc = "none"
  /\ ParserIdle /\ WriterIdle /\ RecordsIdle

NextWrite == WriteStep

SpecWrite == InitWrite /\ [][NextWrite]_vars

(***************************************************************************)
(* Writing a collection and reading the file back                          *)
(***************************************************************************)
\* The dicts of the records written and read back: titles over the input
\* alphabet.
RoundInputs ==
  { Input("BibTeXData", << Raw("content_type", "article"), Raw("author", "Smith, John"),
                           Raw("title", "A Title"), Raw("journal", "J"),
                           Raw("year", "2020"), Raw("volume", "1") >>),
    Input("BibTeXData", << Raw("content_type", "misc"), Raw("author", "Doe, Jane"),
                           Raw("title", "a%b") >>),
    Input("BibTeXData", << Raw("content_type", "misc"), Raw("author", "Doe, Jane"),
                           Raw("title", "a  b") >>),
    Input("BibTeXData", << Raw("content_type", "misc"), Raw("author", "Doe, Jane"),
                           Raw("title", "x {y}"), Raw("year", "1999") >>),
    Input("BibTeXData", << Raw("content_type", "misc"), Raw("author", "Doe, Jane"),
                           Raw("title", "a\\b") >>),
    Input("BibTeXData", << Raw("content_type", "misc"), Raw("author", "Doe, Jane"),
                           Raw("title", "a, b") >>) }

\* BibFile(path).read() once write has returned: a new, empty collection
\* parses the whole text of the file.
Reopen ==
  /\ call.op = "write" /\ exc = "none" /\ wpos = Len(coll)
  /\ call' = [op |-> "read", written |-> coll]
  /\ coll' = <<>>
  /\ buf' = out
  /\ nfrag' = MaxFrags
  /\ eof' = FALSE
  /\ stack' = << FileFrame("OUTSIDE", "unset", <<>>) >>
  /\ UNCHANGED <<writerVars, recordVars, diags, exc>>

InitRound ==
  /\ call = NoCall
  /\ \E n \in 1..MaxItems :
       coll \in { [i \in 1..n |-> Stored(f[i])] : f \in [1..n -> RoundInputs] }
  /\ diags = <<>>
  /\ exc = "none"
  /\ ParserIdle /\ WriterIdle /\ RecordsIdle

NextRound == WriteStep \/ Reopen \/ FileStep \/ EntryStep \/ GroupStep

SpecRound == InitRound /\ [][NextRound]_vars

(***************************************************************************)
(* Parsing one well-formed entry                                           *)
(***************************************************************************)
MaxFields == 2

\* A field of an entry as it is written in the file: name and value.
EntryField(name, value) == << S(name), S(value) >>

EntryFields ==
  { EntryField("author", "Smith, John"), EntryField("title", " A Title "),
    EntryField("journal", "J"), EntryField("year", "2020"),
    EntryField("volume", "1"), EntryField("pages", "12"), EntryField("note", "a  b") }

\* The entries: a type, a key, and up to MaxFields fields with distinct names.
Entries ==
  { [type |-> S(type), key |-> S("k1"), fields |-> fields] :
      type \in {"article", "ARTICLE"},
      fields \in { f \in UNION { [1..n -> EntryFields] : n \in 0..MaxFields } :
                     \A i, j \in 1..Len(f) : f[i][1] = f[j][1] => i = j } }

\* @TYPE{key, name1 = {v1}, ..., nameN = {vN}}
EntryText(e) ==
  S("@") \o e.type \o S("{")
    \o Join(S(", "), <<e.key>> \o [i \in 1..Len(e.fields) |->
                                    e.fields[i][1] \o S(" = {") \o e.fields[i][2] \o S("}")])
    \o S("}")

InitEntry ==
  /\ \E e \in Entries :
       /\ call = [op |-> "entry", entry |-> e]
       /\ buf = EntryText(e)
  /\ nfrag = MaxFrags
  /\ eof = FALSE
  /\ stack = << FileFrame("OUTSIDE", "unset", <<>>) >>
  /\ coll = <<>>
  /\ diags = <<>>
  /\ exc = "none"
  /\ WriterIdle /\ RecordsIdle

NextEntry == FileStep \/ EntryStep \/ GroupStep

SpecEntry == InitEntry /\ [][NextEntry]_vars

(***************************************************************************)
(* Records and collections as objects: construction, insertion, copy,      *)
(* append and merge (bibdata.py: BibData, BibDataSet)                      *)
(***************************************************************************)
MaxObjs == 2

MaxSets == 2

MaxDiags == 1

MaxListLen == 2

\* The dicts records are constructed from.
RecordInputs ==
  { Input("MockBibData", <<>>),
    Input("BibTeXData", <<>>),
    Input("MockBibData", << RawInt("field1", 1), RawInt("field2", 0) >>),
    Input("MockBibData", << Raw("field1", "x"), RawInt("field2", 2) >>),
    Input("MockBibData", << << S("field1"), NoneV >> >>),
    Input("BibTeXData", << Raw("content_type", "article"), Raw("year", "2020") >>),
    Input("BibTeXData", << Raw("pages", "12") >>),
    Input("Result", << Raw("content_type", "Journals"), Raw("title", "T") >>),
    Input("Result", << Raw("doi", "10.1109/5.7") >>) }

\* The name and raw value of the single-field insertions.
SetInputs ==
  { RawInt("field1", 2), RawInt("field2", 0), Raw("year", "2021"), Raw("pages", "12") }

SetClasses == {"BibDataSet", "MockBibDataSet", "BibFile"}

\* cls.dataType
DataType(cls) ==
  IF cls = "MockBibDataSet" THEN "MockBibData"
  ELSE IF cls = "ResultSet" THEN "Result"
  ELSE BibFileDataType

\* cls(data) for a dict: BibData.__init__ checks and stores each item; the
\* object exists once the constructor has returned.
NewRecord(in) ==
  /\ exc = "none" /\ Len(objs) < MaxObjs /\ Len(diags) < MaxDiags
  /\ \E r \in { BibDataInit(in.cls, in.items) } :
       /\ call' = [op |-> "new", cls |-> in.cls, items |-> in.items, diags |-> r.diags]
       /\ diags' = diags \o r.diags
       /\ exc' = r.exc
       /\ IF r.exc = "none"
          THEN /\ heap' = Append(heap, r.data)
               /\ objs' = Append(objs, [cls |-> in.cls, ref |-> Len(heap) + 1])
          ELSE UNCHANGED <<heap, objs>>
  /\ UNCHANGED <<lists, sets, coll, parserVars, writerVars>>

\* record[name] = value: BibData.__setitem__ on the object o.
SetField(o, name, value) ==
  /\ exc = "none" /\ Len(diags) < MaxDiags
  /\ \E r \in { SetItem(objs[o].cls, heap[objs[o].ref], name, value) } :
       /\ call' = [op |-> "set", obj |-> o, name |-> name, value |-> value,
                   before |-> heap[objs[o].ref], diags |-> r.diags]
       /\ heap' = [heap EXCEPT ![objs[o].ref] = r.data]
       /\ diags' = diags \o r.diags
       /\ exc' = r.exc
  /\ UNCHANGED <<objs, lists, sets, coll, parserVars, writerVars>>

\* cls(other) for a record other: the new object holds other's dict itself.
CopyRecord(cls, o) ==
  /\ exc = "none" /\ Len(objs) < MaxObjs
  /\ call' = [op |-> "copy", cls |-> cls, obj |-> o]
  /\ objs' = Append(objs, [cls |-> cls, ref |-> objs[o].ref])
  /\ UNCHANGED <<heap, lists, sets, coll, diags, exc, parserVars, writerVars>>

\* cls() for a collection class: a new, empty list.
NewSet(cls) ==
  /\ exc = "none" /\ Len(sets) < MaxSets
  /\ call' = [op |-> "newset", cls |-> cls]
  /\ lists' = Append(lists, <<>>)
  /\ sets' = Append(sets, [cls |-> cls, ref |-> Len(lists) + 1])
  /\ UNCHANGED <<heap, objs, coll, diags, exc, parserVars, writerVars>>

\* cls(other) for a collection other: the new object holds other's list
\* itself.
CopySet(cls, s) ==
  /\ exc = "none" /\ Len(sets) < MaxSets
  /\ call' = [op |-> "copyset", cls |-> cls, set |-> s]
  /\ sets' = Append(sets, [cls |-> cls, ref |-> sets[s].ref])
  /\ UNCHANGED <<heap, objs, lists, coll, diags, exc, parserVars, writerVars>>

\* collection += record: the list gains dataType(record), a new object of
\* the collection's dataType holding the record's dict.
Add(s, o) ==
  /\ exc = "none" /\ Len(objs) < MaxObjs /\ Len(lists[sets[s].ref]) < MaxListLen
  /\ call' = [op |-> "add", set |-> s, obj |-> o]
  /\ objs' = Append(objs, [cls |-> DataType(sets[s].cls), ref |-> objs[o].ref])
  /\ lists' = [lists EXCEPT ![sets[s].ref] = Append(@, Len(objs) + 1)]
  /\ UNCHANGED <<heap, sets, coll, diags, exc, parserVars, writerVars>>

\* collection += other collection: the list is extended in place with the
\* objects of other's list.
Merge(s, t) ==
  /\ exc = "none"
  /\ lists[sets[t].ref] # <<>>
  /\ Len(lists[sets[s].ref]) + Len(lists[sets[t].ref]) <= MaxListLen
  /\ call' = [op |-> "merge", set |-> s, other |-> t]
  /\ lists' = [lists EXCEPT ![sets[s].ref] = @ \o lists[sets[t].ref]]
  /\ UNCHANGED <<heap, objs, sets, coll, diags, exc, parserVars, writerVars>>

InitRecords ==
  /\ call = NoCall
  /\ coll = <<>>
  /\ diags = <<>>
  /\ exc = "none"
  /\ ParserIdle /\ WriterIdle /\ RecordsIdle

NextRecords ==
  \/ \E in \in RecordInputs : NewRecord(in)
  \/ \E o \in 1..Len(objs) : \E kv \in SetInputs : SetField(o, kv[1], kv[2])
  \/ \E cls \in Classes \ {"ProbeData"} : \E o \in 1..Len(objs) : CopyRecord(cls, o)
  \/ \E cls \in SetClasses : NewSet(cls)
  \/ \E cls \in SetClasses : \E s \in 1..Len(sets) : CopySet(cls, s)
  \/ \E s \in 1..Len(sets) : \E o \in 1..Len(objs) : Add(s, o)
  \/ \E s \in 1..Len(sets) : \E t \in 1..Len(sets) : Merge(s, t)

SpecRecords == InitRecords /\ [][NextRecords]_vars

(***************************************************************************)
(* A field met twice: in a record program, or in the entry being parsed    *)
(***************************************************************************)
\* Entries in which a field name or the bare key comes twice.
DuplicateTexts ==
  { S("@article{k1, year = {2020}, year = {2021}}"),
    S("@article{k1, year = {2020}, title = {T}, year = {2020}}"),
    S("@article{k1, title = {A}, title = {B}, title = {C}}"),
    S("@article{k1, k2, title = {T}}"),
    S("@article{k1, title = {T}, k2}"),
    S("@article{k1, year = {2020}, year = {x}}"),
    S("@article{k1, year = 2020, year = 2021,}"),
    S("@article{k1, year = {2020}}") }

\* parseFile(bibFile) has just been called on a file holding one such entry.
InitDuplicateEntry ==
  /\ \E text \in DuplicateTexts :
       /\ call = [op |-> "parse", text |-> text]
       /\ buf = text
  /\ nfrag = MaxFrags
  /\ eof = FALSE
  /\ stack = << FileFrame("OUTSIDE", "unset", <<>>) >>
  /\ coll = <<>>
  /\ diags = <<>>
  /\ exc = "none"
  /\ WriterIdle /\ RecordsIdle

InitDuplicate == InitRecords \/ InitDuplicateEntry

\* Either records are constructed and fields inserted into them, or the
\* entry is parsed.
NextDuplicate ==
  \/ /\ ParserIdle
     /\ \/ \E in \in RecordInputs : NewRecord(in)
        \/ \E o \in 1..Len(objs) : \E kv \in SetInputs \cup { RawInt("field1", 0) } :
             SetField(o, kv[1], kv[2])
  \/ FileStep
  \/ EntryStep
  \/ GroupStep

SpecDuplicate == InitDuplicate /\ [][NextDuplicate]_vars

(***************************************************************************)
(* Collections constructed from a list of raw elements, then appended to   *)
(* and merged (bibdata.py: BibDataSet.__init__, __iadd__)                  *)
(***************************************************************************)
\* The 'authors' value of an IEEE Xplore result with its author dicts given
\* in full.
RawAuthorDicts(dicts) == << S("authors"), [t |-> "ieeeDicts", l |-> dicts] >>

\* The raw elements a collection of class cls is constructed from.
ListElements(cls) ==
  CASE cls = "MockBibDataSet" ->
         { << RawInt("field1", 1) >>, << RawInt("field1", 2) >>, << RawInt("field1", 0) >> }
    [] cls = "ResultSet" ->
         { << Raw("title", "A"), RawAuthorDicts(<< << Raw("full_name", "John Smith") >> >>) >>,
           << Raw("title", "B"), RawAuthorDicts(<< << RawInt("id", 3) >> >>) >>,
           << Raw("title", "C") >> }
    [] cls = "BibFile" -> { << Raw("year", "2020") >> }

ListClasses == {"MockBibDataSet", "ResultSet", "BibFile"}

\* The list comprehension [self.dataType(d) for d in data], from element i
\* on: the dicts of the records made so far, the diagnostics warned, and the
\* exception that ended it.
RECURSIVE ListItems(_, _, _, _)
ListItems(dataType, elems, i, acc) ==
  IF i > Len(elems) \/ acc.exc # "none" THEN acc
  ELSE Bind(BibDataInit(dataType, elems[i]), LAMBDA r :
         ListItems(dataType, elems, i + 1,
           [recs |-> IF r.exc = "none" THEN Append(acc.recs, r.data) ELSE acc.recs,
            diags |-> acc.diags \o r.diags,
            exc |-> r.exc]))

\* BibDataSet.__init__(data) for a list: a KeyError raised while the list is
\* built is caught and the collection is left empty; any other exception
\* escapes.
BibDataSetInit(cls, elems) ==
  Bind(ListItems(DataType(cls), elems, 1, [recs |-> <<>>, diags |-> <<>>, exc |-> "none"]),
       LAMBDA b :
    IF b.exc = "KeyError" THEN [recs |-> <<>>, diags |-> b.diags, exc |-> "none"] ELSE b)

\* cls(elems) for a collection class and a list of dicts.
NewSetFrom(cls, elems) ==
  /\ exc = "none" /\ Len(sets) < MaxSets /\ Len(diags) < MaxDiags
  /\ Len(objs) + Len(elems) <= MaxObjs
  /\ \E b \in { BibDataSetInit(cls, elems) } :
       /\ call' = [op |-> "newsetfrom", cls |-> cls, elems |-> elems, diags |-> b.diags]
       /\ diags' = diags \o b.diags
       /\ exc' = b.exc
       /\ IF b.exc = "none"
          THEN /\ heap' = heap \o b.recs
               /\ objs' = objs \o [i \in 1..Len(b.recs) |->
                                    [cls |-> DataType(cls), ref |-> Len(heap) + i]]
               /\ lists' = Append(lists, [i \in 1..Len(b.recs) |-> Len(objs) + i])
               /\ sets' = Append(sets, [cls |-> cls, ref |-> Len(lists) + 1])
          ELSE UNCHANGED <<heap, objs, lists, sets>>
  /\ UNCHANGED <<coll, parserVars, writerVars>>

NextCollections ==
  \/ \E in \in RecordInputs : NewRecord(in)
  \/ \E cls \in ListClasses :
       \E elems \in UNION { [1..n -> ListElements(cls)] : n \in 0..MaxListLen } :
         NewSetFrom(cls, elems)
  \/ \E cls \in SetClasses : \E s \in 1..Len(sets) : CopySet(cls, s)
  \/ \E s \in 1..Len(sets) : \E o \in 1..Len(objs) : Add(s, o)
  \/ \E s \in 1..Len(sets) : \E t \in 1..Len(sets) : Merge(s, t)

SpecCollections == InitRecords /\ [][NextCollections]_vars

(***************************************************************************)
(* Parsing an entry whose values hold backslashes                          *)
(***************************************************************************)
\* Entries with a backslash in a field value or in a group, each followed
\* by a year field.
EscapeTexts ==
  { S("@article{k1, title = a\\,b, year = 2020}"),
    S("@article{k1, title = a\\}b, year = 2020}"),
    S("@article{k1, title = a\\{b, year = 2020}"),
    S("@article{k1, title = a\\%b, year = 2020}"),
    S("@article{k1, title = a\\\\, year = 2020}"),
    S("@article{k1, note = a\\,b, title = c\\,d, year = 2020}"),
    S("@article{k1, title = {a\\}b}, year = 2020}"),
    S("@article{k1, title = {a\\{b}, year = 2020}"),
    S("@article{k1, title = {a\\%b}, year = 2020}"),
    S("@article{k1, title = {a\\\\}, year = 2020}"),
    S("@article{k1, title = {a{\\}}b}, year = 2020}") }

\* parseFile(bibFile) has just been called on a file holding one such entry.
InitEscape ==
  /\ \E text \in EscapeTexts :
       /\ call = [op |-> "escape", text |-> text]
       /\ buf = text
  /\ nfrag = MaxFrags
  /\ eof = FALSE
  /\ stack = << FileFrame("OUTSIDE", "unset", <<>>) >>
  /\ coll = <<>>
  /\ diags = <<>>
  /\ exc = "none"
  /\ WriterIdle /\ RecordsIdle

NextEscape == FileStep \/ EntryStep \/ GroupStep

SpecEscape == InitEscape /\ [][NextEscape]_vars

(***************************************************************************)
(* Parsing an entry whose value is a brace group                           *)
(***************************************************************************)
\* What stands between the braces of the value: balanced groups, nested up
\* to three deep, with runs of spaces, tabs and newlines.
GroupTexts ==
  { S("a  b"), S("{a}"), S("a {b {c  d}} e"), S(" \n\t x "), S("{}{}"), S("{{{x}}}"),
    S("a{ }b"), S("  {  a \n }  "), S("") }

\* parseFile(bibFile) has just been called on a file holding one entry whose
\* title is such a group.
InitGroup ==
  /\ \E g \in GroupTexts :
       /\ call = [op |-> "group", text |-> S("@misc{k1, title = {") \o g \o S("}, year = 2020}")]
       /\ buf = S("@misc{k1, title = {") \o g \o S("}, year = 2020}")
  /\ nfrag = MaxFrags
  /\ eof = FALSE
  /\ stack = << FileFrame("OUTSIDE", "unset", <<>>) >>
  /\ coll = <<>>
  /\ diags = <<>>
  /\ exc = "none"
  /\ WriterIdle /\ RecordsIdle

NextGroup == FileStep \/ EntryStep \/ GroupStep

SpecGroup == InitGroup /\ [][NextGroup]_vars

(***************************************************************************)
(* Constructing a DOI or an Author, validating an ISBN or an ISSN          *)
(***************************************************************************)
\* Strings around the shape of a DOI: a head, the characters after it, a
\* separator and a rest.
DoiHeads == { S("10."), S("11."), S("10"), <<>> }

DoiMiddles ==
  { S("1234"), S("abcd"), S("123"), S("12345"), S("12/4"), S("1/34"),
    S("////"), <<"1", "2", "\n", "4">>, S("    ") }

DoiSeparators == { S("/"), S("."), <<>> }

DoiRests ==
  { <<>>, S("5"), S("56789"), S("suffix"), S("a/b"), S("/"),
    <<"a", "\n", "b">>, <<"5", "\n">>, <<"\n">> }

DoiTexts ==
  { h \o m \o sep \o r :
      h \in DoiHeads, m \in DoiMiddles, sep \in DoiSeparators, r \in DoiRests }

\* DOI(value) is called on a string.
NewDOI ==
  /\ call = NoCall
  /\ \E text \in DoiTexts :
       call' = [op |-> "DOI", value |-> text, out |-> DOI(StrV(text))]
  /\ UNCHANGED << buf, nfrag, eof, stack, coll, out, wpos, heap, objs, lists,
                  sets, diags, exc >>

\* The sum of weight[i] * int(digits[i]) over the digits, as the loops of
\* isbnValidator and issnValidator accumulate it.
RECURSIVE WeightedSum(_, _, _)
WeightedSum(digits, weight, n) ==
  IF n = 0 THEN 0
  ELSE WeightedSum(digits, weight, n - 1) + weight[n] * DigitsVal(<< digits[n] >>)

\* An ISBN validator that sums the digits unweighted.
isbnValidatorPlainSum(isbn) ==
  LET groups == Split(isbn, <<"-">>)
      digits == Cat(groups, 1, Len(groups))
      s == WeightedSum(digits, [i \in 1..Len(digits) |-> 1], Len(digits))
  IN  IF ~(Len(groups) \in {4, 5} /\ \A g \in 1..Len(groups) : AllDigits(groups[g]))
      THEN FALSE
      ELSE IF Len(digits) = 10 THEN s % 11 = 0
      ELSE IF Len(digits) = 13 THEN s % 10 = 0
      ELSE FALSE

\* isbnValidator: the pattern (\d+-){3,4}\d+ matches three or four groups of
\* digits each followed by a hyphen, then a last group of digits.
isbnValidator(isbn) ==
  LET groups == Split(isbn, <<"-">>)
      digits == Cat(groups, 1, Len(groups))
      s == IF Len(digits) = 10
           THEN WeightedSum(digits, [i \in 1..Len(digits) |-> 11 - i], Len(digits))
           ELSE IF Len(digits) = 13
           THEN WeightedSum(digits, [i \in 1..Len(digits) |-> 3 - 2 * (i % 2)], Len(digits))
           ELSE 0
  IN  IF ~(Len(groups) \in {4, 5} /\ \A g \in 1..Len(groups) : AllDigits(groups[g]))
      THEN FALSE
      ELSE IF Len(digits) = 10 THEN s % 11 = 0
      ELSE IF Len(digits) = 13 THEN s % 10 = 0
      ELSE FALSE

\* An ISSN validator that sums the digits unweighted.
issnValidatorPlainSum(issn) ==
  LET groups == Split(issn, <<"-">>)
      digits == Cat(groups, 1, Len(groups))
  IN  IF ~(Len(groups) = 2 /\ \A g \in 1..2 : Len(groups[g]) = 4 /\ AllDigits(groups[g]))
      THEN FALSE
      ELSE WeightedSum(digits, [i \in 1..Len(digits) |-> 1], Len(digits)) % 11 = 0

\* issnValidator: the pattern \d{4}-\d{4}.
issnValidator(issn) ==
  LET groups == Split(issn, <<"-">>)
      digits == Cat(groups, 1, Len(groups))
  IN  IF ~(Len(groups) = 2 /\ \A g \in 1..2 : Len(groups[g]) = 4 /\ AllDigits(groups[g]))
      THEN FALSE
      ELSE WeightedSum(digits, [i \in 1..Len(digits) |-> 9 - i], Len(digits)) % 11 = 0

\* The text with a hyphen after each of the positions in cuts, position 0
\* being before the first character.
Hyphenate(text, cuts) ==
  (IF 0 \in cuts THEN <<"-">> ELSE <<>>) \o
  Cat([i \in 1..Len(text) |-> IF i \in cuts THEN << text[i], "-" >> ELSE << text[i] >>],
      1, Len(text))

\* The digits of a number but the last one, and the characters tried as the
\* last one.
IsbnBodies ==
  { S("030640615"), S("999215810"), S("978030640615"), S("03064061"),
    S("97803064061"), S("9780306406150") }

IssnBodies == { S("0378595"), S("2049363"), S("037859"), S("03785950") }

CheckChars == { << DigitChars[i] >> : i \in 1..10 } \cup { S("X") }

IsbnCuts ==
  { {}, {1}, {1, 4}, {1, 4, 9}, {2, 4, 9}, {1, 2, 4, 9}, {1, 2, 3, 4, 9},
    {3, 4, 7, 12}, {3, 4, 7}, {3, 7, 12}, {0, 1, 4, 9}, {1, 4, 9, 10},
    {3, 4, 7, 12, 13} }

IssnCuts == { {}, {4}, {3}, {5}, {2, 4}, {0, 4}, {4, 8}, {4, 9} }

IsbnTexts ==
  { Hyphenate(b \o c, cuts) : b \in IsbnBodies, c \in CheckChars, cuts \in IsbnCuts }
    \cup { S("80-902734-1-X"), S("80--902734-1-6"), S("80-902734-1-6 "), <<>> }

IssnTexts ==
  { Hyphenate(b \o c, cuts) : b \in IssnBodies, c \in CheckChars, cuts \in IssnCuts }
    \cup { S("0378--5955"), S("0378 5955"), S("0378-5955 "), <<>> }

\* isbnValidator(isbn) is called on a string.
ValidateIsbn ==
  /\ call = NoCall
  /\ \E text \in IsbnTexts :
       call' = [op |-> "isbnValidator", value |-> text, out |-> isbnValidator(text)]
  /\ UNCHANGED << buf, nfrag, eof, stack, coll, out, wpos, heap, objs, lists,
                  sets, diags, exc >>

\* issnValidator(issn) is called on a string.
ValidateIssn ==
  /\ call = NoCall
  /\ \E text \in IssnTexts :
       call' = [op |-> "issnValidator", value |-> text, out |-> issnValidator(text)]
  /\ UNCHANGED << buf, nfrag, eof, stack, coll, out, wpos, heap, objs, lists,
                  sets, diags, exc >>

\* Author.__getitem__('initial')
AuthorInitial(a) ==
  IF a.name = <<>> THEN Raise("IndexError") ELSE Ok(<< UpperC(a.name[1]) >>)

\* Strings and lists an Author is constructed from.
AuthorTexts ==
  { S("Name1, Firstname"), S("Name1-Name2, Firstname Secondname Thirdname"),
    S("Firstname Name1"), S("Firstname Secondname Name1-Name2"),
    S(" smith ,  John  J Junior"), S("Smith, J"), S("Smith,John"), S("Smith,"),
    S("J Smith"), S("John J smith"), S("John  Smith"), S("John Smith J"),
    <<"J", "o", "h", "n", "\t", "S", "m", "i", "t", "h">>,
    S("Smith"), S("J"), <<>>, S("A B"), S(" "),
    S(", John"), S(" , John"), S(","),
    S("Smith, John, Junior"), S("a,b,c"), S(",,") }

AuthorLists ==
  { <<>>, << S("Name1") >>, << S("Name1"), S("Firstname") >>,
    << S("Name1-Name2"), S("Firstname"), S("Secondname") >>,
    << S("smith"), S("J"), S(" x ") >>, << <<>>, S("John") >> }

AuthorValues ==
  { StrV(text) : text \in AuthorTexts }
    \cup { [t |-> "list", l |-> [i \in 1..Len(l) |-> StrV(l[i])]] : l \in AuthorLists }

\* The outcomes of author['initial'] and str(author) on a constructed author.
AuthorViews(made) ==
  IF made.exc # "none" THEN [initial |-> Raise(made.exc), str |-> <<>>]
  ELSE [initial |-> AuthorInitial(made.val), str |-> AuthorStr(made.val)]

\* Author(value) is called, then author['initial'] and str(author).
NewAuthor ==
  /\ call = NoCall
  /\ \E value \in AuthorValues :
       call' = [op |-> "Author", value |-> value, out |-> Author(value),
                views |-> AuthorViews(Author(value))]
  /\ UNCHANGED << buf, nfrag, eof, stack, coll, out, wpos, heap, objs, lists,
                  sets, diags, exc >>

InitValues == InitValidate

NextValues == NewDOI \/ ValidateIsbn \/ ValidateIssn \/ NewAuthor

SpecValues == InitValues /\ [][NextValues]_vars

(***************************************************************************)
(* ieeexplore.py: Query, a dict of parameters kept in insertion order      *)
(***************************************************************************)
\* Query.params for the parameters used here: 'type' and, in the order of
\* the source, the rules __check goes through ('doc' has no effect). None of
\* them accepts boolean operators or wildcards.
QueryParams ==
  [ article_title  |-> [type |-> "search", rules |-> <<>>],
    article_number |-> [type |-> "search",
                        rules |-> << <<"value_type", "int">>, <<"alone", TRUE>> >>],
    doi            |-> [type |-> "search",
                        rules |-> << <<"value_type", "DOI">>, <<"alone", TRUE>> >>],
    start_year     |-> [type |-> "filter", rules |-> << <<"value_type", "int">> >>],
    end_year       |-> [type |-> "filter", rules |-> << <<"value_type", "int">> >>],
    max_records    |-> [type |-> "page",
                        rules |-> << <<"value_type", "int">>, <<"max", 200>> >>],
    start_record   |-> [type |-> "page", rules |-> << <<"value_type", "int">> >>],
    sort_field     |-> [type |-> "sort",
                        rules |-> << <<"values", << S("article_number"), S("article_title"),
                                                    S("author"), S("publication_title"),
                                                    S("publication_year") >> >> >>],
    sort_order     |-> [type |-> "sort", rules |-> << <<"value_type", "SortOrder">> >>] ]

\* A Query object: its parameters and its flag __alone.
QueryObj(params, alone) == [params |-> params, alone |-> alone]

\* The outcome of __check: whether the value is accepted, the warnings in
\* order, the exception that escaped and the value of the flag __alone after
\* the call.
CheckResult(ok, warnings, e, alone) ==
  [ok |-> ok, warnings |-> warnings, exc |-> e, alone |-> alone]

\* v(value) for the 'value_type' v of a parameter, when type(value) is not v.
QueryCast(type, value) ==
  CASE type = "int"       -> IF value.t = "int" THEN Ok(value) ELSE PyInt(value)
    [] type = "DOI"       -> DOI(value)
    [] type = "SortOrder" -> Ok(value)

\* del d[k] for a key the dict holds or not
DictDel(d, k) == SelectSeq(d, LAMBDA item : item[1] # k)

\* The loop of Query.__check over the rules of a parameter from the i-th on,
\* then the tests after the loop; alone is the local of that name.
RECURSIVE QueryCheckFrom(_, _, _, _, _)
QueryCheckFrom(q, name, value, i, alone) ==
  IF i <= Len(QueryParams[name].rules)
  THEN Bind(QueryParams[name].rules[i], LAMBDA rule :
         CASE rule[1] = "value_type" ->
                Bind(QueryCast(rule[2], value), LAMBDA cast :
                  IF cast.exc = "ValueError"
                  THEN CheckResult(FALSE, << Diag("NotCastable", name) >>, "none", q.alone)
                  ELSE IF cast.exc = "TypeError"
                  THEN CheckResult(FALSE, << Diag("NotOfAcceptedType", name) >>, "none", q.alone)
                  ELSE IF cast.exc # "none"
                  THEN CheckResult(FALSE, <<>>, cast.exc, q.alone)
                  ELSE QueryCheckFrom(q, name, value, i + 1, alone))
           [] rule[1] = "values" ->
                IF ~(value.t = "str" /\ InValues(value.s, rule[2]))
                THEN CheckResult(FALSE, << Diag("NotInValues", name) >>, "none", q.alone)
                ELSE QueryCheckFrom(q, name, value, i + 1, alone)
           [] rule[1] = "max" ->
                Bind(Less(IntV(rule[2]), value), LAMBDA larger :
                  IF larger.exc # "none" THEN CheckResult(FALSE, <<>>, larger.exc, q.alone)
                  ELSE IF larger.val
                  THEN CheckResult(FALSE, << Diag("LargerThanMaximum", name) >>, "none", q.alone)
                  ELSE QueryCheckFrom(q, name, value, i + 1, alone))
           [] rule[1] = "alone" ->
                QueryCheckFrom(q, name, value, i + 1, rule[2]))
  ELSE Bind(IF name = "start_year" /\ DictHas(q.params, "end_year")
            THEN Less(DictGet(q.params, "end_year"), value)
            ELSE IF name = "end_year" /\ DictHas(q.params, "start_year")
            THEN Less(value, DictGet(q.params, "start_year"))
            ELSE Ok(FALSE), LAMBDA inverted :
         IF inverted.exc # "none" THEN CheckResult(FALSE, <<>>, inverted.exc, q.alone)
         ELSE IF inverted.val
         THEN CheckResult(FALSE, << Diag("YearRange", name) >>, "none", q.alone)
         ELSE IF value.t = "str" /\ IndexOf(value.s, "*") > 0
         THEN CheckResult(FALSE, << Diag("Wildcard", name) >>, "none", q.alone)
         ELSE CheckResult(TRUE, <<>>, "none", alone))

\* Query.__check(name, value)
QueryCheck(q, name, value) ==
  IF q.alone /\ name # "article_number"
  THEN CheckResult(FALSE, << Diag("Ignored", name) >>, "none", q.alone)
  ELSE QueryCheckFrom(q, name, value, 1, FALSE)

\* What a call on a Query leaves behind: the Query, the warnings in order
\* and the exception that escaped.
QueryOutcome(q, warnings, e) == [q |-> q, warnings |-> warnings, exc |-> e]

\* Query.reset()
QueryReset(q) == QueryObj(DictDel(q.params, "start_record"), q.alone)

\* Query.clear()
QueryClear(q) == QueryObj(<<>>, FALSE)

\* Query.__setitem__(name, value)
QuerySetItem(q, name, value) ==
  IF name \notin DOMAIN QueryParams THEN QueryOutcome(q, <<>>, "KeyError")
  ELSE IF QueryParams[name].type # "search" THEN QueryOutcome(q, <<>>, "KeyError")
  ELSE Bind(QueryCheck(q, name, value), LAMBDA c :
         IF c.exc # "none" THEN QueryOutcome(q, c.warnings, c.exc)
         ELSE IF ~c.ok THEN QueryOutcome(q, c.warnings, "none")
         ELSE IF c.alone
         THEN QueryOutcome(QueryObj(<< <<name, value>> >>, TRUE),
                           [i \in 1..Len(q.params) |-> Diag("Superseded", q.params[i][1])],
                           "none")
         ELSE QueryOutcome(QueryObj(DictSet(QueryReset(q).params, name, value), FALSE),
                           <<>>, "none"))

\* The loop of Query.filterBy over the keyword arguments from the i-th on.
RECURSIVE FilterFrom(_, _, _, _)
FilterFrom(q, kwArgs, i, warnings) ==
  IF i > Len(kwArgs) THEN QueryOutcome(q, warnings, "none")
  ELSE IF kwArgs[i][2] = NoneV
  THEN FilterFrom(QueryObj(DictDel(q.params, kwArgs[i][1]), q.alone), kwArgs, i + 1, warnings)
  ELSE Bind(QueryCheck(q, kwArgs[i][1], kwArgs[i][2]), LAMBDA c :
         IF c.exc # "none" THEN QueryOutcome(q, warnings \o c.warnings, c.exc)
         ELSE IF ~c.ok THEN FilterFrom(q, kwArgs, i + 1, warnings \o c.warnings)
         ELSE FilterFrom(QueryObj(DictSet(q.params, kwArgs[i][1], kwArgs[i][2]), c.alone),
                         kwArgs, i + 1, warnings))

\* Query.filterBy(**kwArgs)
QueryFilterBy(q, kwArgs) == FilterFrom(QueryReset(q), kwArgs, 1, <<>>)

\* Query.sortBy(field=order), and Query.sortBy(field) with the ascending
\* order
QuerySortBy(q, field, order) ==
  IF order = NoneV
  THEN QueryOutcome(QueryObj(DictDel(DictDel(QueryReset(q).params, "sort_field"),
                                     "sort_order"), q.alone), <<>>, "none")
  ELSE Bind(QueryCheck(QueryReset(q), "sort_field", field), LAMBDA c1 :
         IF ~c1.ok THEN QueryOutcome(QueryReset(q), c1.warnings, c1.exc)
         ELSE Bind(QueryCheck(QueryObj(QueryReset(q).params, c1.alone), "sort_order", order),
                   LAMBDA c2 :
                IF ~c2.ok
                THEN QueryOutcome(QueryObj(QueryReset(q).params, c1.alone), c2.warnings, c2.exc)
                ELSE QueryOutcome(
                       QueryObj(DictSet(DictSet(QueryReset(q).params, "sort_field", field),
                                        "sort_order", order), c2.alone), <<>>, "none")))

\* Query.limit(records)
QueryLimit(q, records) ==
  IF records = NoneV
  THEN IF DictHas(q.params, "max_records")
       THEN QueryOutcome(QueryObj(DictDel(q.params, "max_records"), q.alone), <<>>, "none")
       ELSE QueryOutcome(q, <<>>, "KeyError")
  ELSE Bind(QueryCheck(q, "max_records", records), LAMBDA c :
         IF ~c.ok THEN QueryOutcome(q, c.warnings, c.exc)
         ELSE QueryOutcome(QueryObj(DictSet(q.params, "max_records", records), c.alone),
                           <<>>, "none"))

\* Query.__delitem__(name)
QueryDelItem(q, name) ==
  IF DictHas(QueryReset(q).params, name)
  THEN QueryOutcome(QueryObj(DictDel(QueryReset(q).params, name), q.alone), <<>>, "none")
  ELSE QueryOutcome(QueryReset(q), <<>>, "KeyError")

\* a + b on ints, TypeError for an int and a str
Plus(a, b) ==
  IF a.t = "int" /\ b.t = "int" THEN Ok(IntV(a.n + b.n))
  ELSE IF a.t = "str" /\ b.t = "str" THEN Ok(StrV(a.s \o b.s))
  ELSE Raise("TypeError")

\* The start record of Query.send(start): the given one or, for None, the
\* stored one plus the stored limit or plus 200, 1 when none is stored.
SendStart(q, start) ==
  IF start # NoneV THEN Ok(start)
  ELSE IF ~DictHas(q.params, "start_record") THEN Ok(IntV(1))
  ELSE IF DictHas(q.params, "max_records")
  THEN Plus(DictGet(q.params, "start_record"), DictGet(q.params, "max_records"))
  ELSE Plus(DictGet(q.params, "start_record"), IntV(200))

\* Query.send(start) up to the request: the Query with the start record
\* stored; the request carries the parameters of the Query.
QuerySend(q, start) ==
  Bind(SendStart(q, start), LAMBDA s :
    IF s.exc # "none" THEN QueryOutcome(q, <<>>, s.exc)
    ELSE QueryOutcome(QueryObj(DictSet(q.params, "start_record", s.val), q.alone),
                      <<>>, "none"))

(***************************************************************************)
(* A Query on a database: setting, filtering, sorting, limiting, sending   *)
(***************************************************************************)
MaxParams == 3

MaxSends == 2

\* The Query under use: its dict is heap[1], its flag is held by objs[1].
TheQuery == QueryObj(heap[1], objs[1].alone)

\* The search parameters set and their values.
SearchInputs ==
  { <<"article_title", StrV(S("t"))>>, <<"article_title", StrV(S("t*"))>>,
    <<"doi", StrV(S("10.1234/x"))>>, <<"doi", StrV(S("x"))>>,
    <<"article_number", IntV(5)>>, <<"article_number", StrV(S("x"))>>,
    <<"start_year", IntV(1999)>> }

\* Keyword arguments of filterBy, one at a time.
FilterInputs ==
  { << <<"start_year", IntV(1999)>> >>, << <<"start_year", NoneV>> >>,
    << <<"doi", StrV(S("10.1234/x"))>> >>, << <<"article_number", IntV(5)>> >>,
    << <<"article_title", NoneV>> >> }

Years == { IntV(1999), IntV(2010), StrV(S("1999")), StrV(S("200")) }

\* Keyword arguments of filterBy on the years: one of them, or both in
\* either order.
YearInputs ==
  { << <<name, year>> >> : name \in {"start_year", "end_year"}, year \in Years \cup {NoneV} }
    \cup { << <<p[1][1], p[2]>>, <<p[1][2], p[3]>> >> :
             p \in { <<"start_year", "end_year">>, <<"end_year", "start_year">> }
                     \X Years \X Years }

SortInputs ==
  { << StrV(S("author")), StrV(S("asc")) >>, << StrV(S("year")), StrV(S("asc")) >>,
    << StrV(S("author")), NoneV >> }

LimitInputs == { IntV(1), IntV(2), IntV(201), StrV(S("2")), NoneV }

\* Query(db) has just been constructed; the database has received no request.
InitQuery ==
  /\ call = NoCall
  /\ heap = << <<>> >>
  /\ objs = << [cls |-> "Query", alone |-> FALSE] >>
  /\ lists = <<>> /\ sets = <<>>
  /\ coll = <<>>
  /\ diags = <<>>
  /\ exc = "none"
  /\ ParserIdle /\ WriterIdle

\* The call op(args) on the Query returns or raises with the outcome r.
QueryCall(op, args, r) ==
  /\ call' = [op |-> op, args |-> args, warnings |-> r.warnings, exc |-> r.exc]
  /\ heap' = << r.q.params >>
  /\ objs' = << [cls |-> "Query", alone |-> r.q.alone] >>
  /\ UNCHANGED << lists, sets, diags, exc, parserVars, writerVars >>

\* query[name] = value
SetParam(inputs) ==
  /\ Len(heap[1]) < MaxParams
  /\ \E in \in inputs : QueryCall("setitem", in, QuerySetItem(TheQuery, in[1], in[2]))
  /\ UNCHANGED coll

\* del query[name]
DelParam ==
  /\ \E name \in {"article_title", "doi"} :
       QueryCall("delitem", name, QueryDelItem(TheQuery, name))
  /\ UNCHANGED coll

\* query.filterBy(**kwArgs)
FilterBy(inputs) ==
  /\ Len(heap[1]) < MaxParams
  /\ \E kwArgs \in inputs : QueryCall("filterBy", kwArgs, QueryFilterBy(TheQuery, kwArgs))
  /\ UNCHANGED coll

\* query.sortBy(field=order)
SortBy ==
  /\ Len(heap[1]) < MaxParams
  /\ \E in \in SortInputs : QueryCall("sortBy", in, QuerySortBy(TheQuery, in[1], in[2]))
  /\ UNCHANGED coll

\* query.limit(records)
Limit(inputs) ==
  /\ Len(heap[1]) < MaxParams
  /\ \E records \in inputs : QueryCall("limit", records, QueryLimit(TheQuery, records))
  /\ UNCHANGED coll

\* query.clear()
Clear ==
  /\ QueryCall("clear", <<>>, QueryOutcome(QueryClear(TheQuery), <<>>, "none"))
  /\ UNCHANGED coll

\* query.reset()
Reset ==
  /\ QueryCall("reset", <<>>, QueryOutcome(QueryReset(TheQuery), <<>>, "none"))
  /\ UNCHANGED coll

\* query.send(start): the database receives the parameters of the Query;
\* coll keeps the start records it was asked for.
Send(starts) ==
  /\ Len(coll) < MaxSends
  /\ \E start \in starts :
       \E r \in { QuerySend(TheQuery, start) } :
         /\ QueryCall("send", start, r)
         /\ coll' = IF r.exc = "none"
                    THEN Append(coll, DictGet(r.q.params, "start_record"))
                    ELSE coll

\* Searching, filtering, sorting and limiting, with the parameters that
\* exclude the others.
NextQuery ==
  \/ SetParam(SearchInputs) \/ DelParam \/ FilterBy(FilterInputs) \/ SortBy
  \/ Limit({IntV(2), NoneV}) \/ Clear \/ Send({NoneV})

SpecQuery == InitQuery /\ [][NextQuery]_vars

\* Filtering by years.
NextYears == FilterBy(YearInputs) \/ Clear

SpecYears == InitQuery /\ [][NextYears]_vars

\* Limiting and sending.
NextSend ==
  \/ Limit(LimitInputs) \/ Send({NoneV, IntV(2)}) \/ Reset
  \/ SetParam({ <<"article_title", StrV(S("t"))>> })
  \/ FilterBy({ << <<"start_record", IntV(5)>> >>, << <<"start_year", IntV(1999)>> >> })

SpecSend == InitQuery /\ [][NextSend]_vars

(***************************************************************************)
(* ieeexplore.py: ResultSet, the results of a Query fetched page by page   *)
(***************************************************************************)
MaxTotal == 3

\* The articles a database of total records answers a request with: those
\* numbered from start_record on, max_records of them at most, 200 when the
\* request carries no limit; none (no 'articles' key) past the last record.
Page(total, request) ==
  LET startRecord == DictGet(request, "start_record").n
      maxRecords == IF DictHas(request, "max_records")
                    THEN DictGet(request, "max_records").n ELSE 200
      last == IF total + 1 < startRecord + maxRecords
              THEN total ELSE startRecord + maxRecords - 1
  IN  IF startRecord > total THEN <<>>
      ELSE [i \in 1..(last - startRecord + 1) |-> startRecord + i - 1]

\* What a call on a ResultSet leaves behind: its Query, its list, the start
\* records requested from the database in order, the value returned and the
\* exception that escaped.
Fetched(q, data, requests, value, e) ==
  [q |-> q, data |-> data, requests |-> requests, out |-> value, exc |-> e]

\* ResultSet.fetchMore() on a set holding data, for a database of total
\* records.
FetchMore(q, data, total) ==
  Bind(QuerySend(q, NoneV), LAMBDA sent :
    Bind(Page(total, sent.q.params), LAMBDA more :
      IF more = <<>>
      THEN Fetched(sent.q, data, << DictGet(sent.q.params, "start_record") >>, <<>>, "EOFError")
      ELSE Fetched(sent.q, data \o more, << DictGet(sent.q.params, "start_record") >>,
                   more, "none")))

\* The loop of ResultSet.complete(False), and of a lazy iteration past the
\* elements the set holds: fetchMore until EOFError, then ResourceWarning
\* unless the set holds as many elements as the database announced; out is
\* the list the set holds then.
RECURSIVE FetchAll(_, _, _, _, _)
FetchAll(q, data, total, announced, requests) ==
  Bind(FetchMore(q, data, total), LAMBDA f :
    IF f.exc = "EOFError"
    THEN Fetched(f.q, f.data, requests \o f.requests, f.data,
                 IF Len(f.data) # announced THEN "ResourceWarning" ELSE "none")
    ELSE FetchAll(f.q, f.data, total, announced, requests \o f.requests))

\* ResultSet.__getitem__(item) for item >= 0
RECURSIVE FetchItem(_, _, _, _, _)
FetchItem(q, data, total, item, requests) ==
  IF item < Len(data) THEN Fetched(q, data, requests, data[item + 1], "none")
  ELSE Bind(FetchMore(q, data, total), LAMBDA f :
         IF f.exc # "none" THEN Fetched(f.q, f.data, requests \o f.requests, <<>>, f.exc)
         ELSE FetchItem(f.q, f.data, total, item, requests \o f.requests))

\* The database: the number of its records.
TheDatabase == objs[2]

\* The ResultSet the caller holds: its list is lists[1].
TheSet == sets[1]

\* Query(db) has just been constructed on a database of some number of
\* records; the caller holds no ResultSet.
InitFetch ==
  /\ call = NoCall
  /\ heap = << <<>> >>
  /\ \E total \in 0..MaxTotal :
       objs = << [cls |-> "Query", alone |-> FALSE], [cls |-> "Database", total |-> total] >>
  /\ lists = <<>> /\ sets = <<>>
  /\ coll = <<>>
  /\ diags = <<>>
  /\ exc = "none"
  /\ ParserIdle /\ WriterIdle

\* The call op(args) on the ResultSet returns or raises with the outcome f.
SetCall(op, args, f) ==
  /\ call' = [op |-> op, args |-> args, out |-> f.out, exc |-> f.exc]
  /\ heap' = << f.q.params >>
  /\ lists' = << f.data >>
  /\ coll' = coll \o f.requests
  /\ UNCHANGED << objs, diags, exc, parserVars, writerVars >>

\* query.limit(records), before the query is sent
LimitFirst ==
  /\ sets = <<>>
  /\ \E records \in { IntV(1), IntV(2) } :
       \E r \in { QueryLimit(TheQuery, records) } :
         /\ call' = [op |-> "limit", args |-> records, out |-> <<>>, exc |-> r.exc]
         /\ heap' = << r.q.params >>
  /\ UNCHANGED << objs, lists, sets, coll, diags, exc, parserVars, writerVars >>

\* results = query.send(start): ResultSet.__init__ on the answer of the
\* database.
SendFirst ==
  /\ sets = <<>>
  /\ \E start \in { NoneV, IntV(2) } :
       \E sent \in { QuerySend(TheQuery, start) } :
         /\ SetCall("send", start,
                    Fetched(sent.q, Page(TheDatabase.total, sent.q.params),
                            << DictGet(sent.q.params, "start_record") >>, <<>>, "none"))
         /\ sets' = << [cls |-> "ResultSet", total |-> TheDatabase.total, lazy |-> FALSE] >>

\* results.fetchMore()
Fetch ==
  /\ sets # <<>> /\ Len(coll) < MaxSends + MaxTotal
  /\ SetCall("fetchMore", <<>>, FetchMore(TheQuery, lists[1], TheDatabase.total))
  /\ UNCHANGED sets

\* results.complete(lazy)
Complete ==
  /\ sets # <<>> /\ Len(coll) < MaxSends + MaxTotal
  /\ \E lazy \in BOOLEAN :
       /\ SetCall("complete", lazy,
                  IF lazy THEN Fetched(TheQuery, lists[1], <<>>, lists[1], "none")
                  ELSE Bind(FetchAll(TheQuery, lists[1], TheDatabase.total, TheSet.total, <<>>),
                            LAMBDA f : [f EXCEPT !.out = IF f.exc = "none" THEN f.data ELSE <<>>]))
       /\ sets' = << [TheSet EXCEPT !.lazy = lazy] >>

\* len(results)
Length ==
  /\ sets # <<>>
  /\ SetCall("len", <<>>,
             Fetched(TheQuery, lists[1], <<>>,
                     IF TheSet.lazy THEN TheSet.total ELSE Len(lists[1]), "none"))
  /\ UNCHANGED sets

\* results[item]
Item ==
  /\ sets # <<>> /\ Len(coll) < MaxSends + MaxTotal
  /\ \E item \in 0..(MaxTotal - 1) :
       SetCall("getitem", item, FetchItem(TheQuery, lists[1], TheDatabase.total, item, <<>>))
  /\ UNCHANGED sets

\* [r for r in results]: the elements the set holds and, if it is lazily
\* complete, those fetched until EOFError; out is what was yielded.
Iterate ==
  /\ sets # <<>> /\ Len(coll) < MaxSends + MaxTotal
  /\ SetCall("iter", <<>>,
             IF TheSet.lazy
             THEN FetchAll(TheQuery, lists[1], TheDatabase.total, TheSet.total, <<>>)
             ELSE Fetched(TheQuery, lists[1], <<>>, lists[1], "none"))
  /\ UNCHANGED sets

NextFetch == LimitFirst \/ SendFirst \/ Fetch \/ Complete \/ Length \/ Item \/ Iterate

SpecFetch == InitFetch /\ [][NextFetch]_vars

(***************************************************************************)
(* ieeexplore.py: QueryString, the boolean algebra of query strings        *)
(***************************************************************************)
MaxNodes == 4

\* An operand of an operator: the object at a place of objs, or a Python
\* str.
Ref(at) == [t |-> "ref", at |-> at]

\* QueryString(text)
QueryStringObj(text) == [cls |-> "QueryString", str |-> text, neg |-> FALSE]

\* QueryString.isNegated of an object; a compound is no QueryString.
IsNegatedString(h, at) == h[at].cls = "QueryString" /\ h[at].neg

\* The objects after a str operand has been made a QueryString, and the
\* place of the operand among them.
Operand(h, x) ==
  IF x.t = "str" THEN [h |-> Append(h, QueryStringObj(x.s)), at |-> Len(h) + 1]
  ELSE [h |-> h, at |-> x.at]

\* __Compound.__merge_check(operator, operand) for an operand object
MergeCheck(h, operator, at) ==
  IF h[at].cls = "Compound" /\ h[at].operator = operator THEN h[at].children
  ELSE << at >>

\* __Compound.__init__(op, *args): the objects with the new compound last,
\* or ValueError from __check and the objects as they were.
NewCompound(before, h, operator, children) ==
  IF operator = "OR" /\ \E i \in 1..Len(children) : IsNegatedString(h, children[i])
  THEN [h |-> before, exc |-> "ValueError", out |-> NoneV]
  ELSE [h |-> Append(h, [cls |-> "Compound", operator |-> operator, children |-> children]),
        exc |-> "none", out |-> Ref(Len(h) + 1)]

\* x | y and x & y, one of x and y at least being a QueryString or a
\* compound: __or__, __ror__, __and__, __rand__ of both classes.
Combine(h, operator, x, y) ==
  Bind(Operand(h, x), LAMBDA left :
    Bind(Operand(left.h, y), LAMBDA right :
      NewCompound(h, right.h, operator,
                  MergeCheck(right.h, operator, left.at) \o MergeCheck(right.h, operator, right.at))))

\* ~x: QueryString.__invert__; a compound has no such operator.
Invert(h, at) ==
  IF h[at].cls = "QueryString"
  THEN [h |-> [h EXCEPT ![at].neg = TRUE], exc |-> "none", out |-> Ref(at)]
  ELSE [h |-> h, exc |-> "TypeError", out |-> NoneV]

\* The first result of a sequence that raised, if any, else all the values.
RECURSIVE Collect(_, _)
Collect(results, done) ==
  IF results = <<>> THEN Ok(done)
  ELSE IF Head(results).exc # "none" THEN Head(results)
  ELSE Collect(Tail(results), Append(done, Head(results).val))

\* str(x): QueryString.__str__ and __Compound.__str__
RECURSIVE Str(_, _)
Str(h, at) ==
  IF h[at].cls = "QueryString" THEN Ok(S("\"") \o h[at].str \o S("\""))
  ELSE LET children == h[at].children
           nonInverted == SelectSeq(children, LAMBDA c : ~IsNegatedString(h, c))
           inverted == SelectSeq(children, LAMBDA c : IsNegatedString(h, c))
           nots == [i \in 1..Len(inverted) |-> S(" NOT ") \o Str(h, inverted[i]).val]
       IN  IF nonInverted = <<>> THEN Raise("ValueError")
           ELSE Bind(Collect([i \in 1..Len(nonInverted) |-> Str(h, nonInverted[i])], <<>>),
                  LAMBDA texts :
                    IF texts.exc # "none" THEN texts
                    ELSE Ok(Join(S(" ") \o S(h[at].operator) \o S(" "), texts.val)
                            \o Cat(nots, 1, Len(nots))))

\* The text of the QueryString made when that many objects exist already,
\* and the text of the str operands.
QueryTexts == << S("a"), S("b"), S("c"), S("d"), S("e") >>

StrOperand == StrV(S("s"))

\* The operands at hand: every object made so far, and a str.
Operands == { Ref(at) : at \in 1..Len(objs) } \cup { StrOperand }

InitQueryString ==
  /\ call = NoCall
  /\ objs = <<>>
  /\ heap = <<>> /\ lists = <<>> /\ sets = <<>>
  /\ coll = <<>>
  /\ diags = <<>>
  /\ exc = "none"
  /\ ParserIdle /\ WriterIdle

\* The operation op on args ends with the result r.
StringCall(op, args, r) ==
  /\ Len(r.h) <= MaxNodes
  /\ call' = [op |-> op, args |-> args, out |-> r.out, exc |-> r.exc]
  /\ objs' = r.h
  /\ UNCHANGED << heap, lists, sets, coll, diags, exc, parserVars, writerVars >>

\* QueryString(text)
NewQueryString ==
  /\ Len(objs) < MaxNodes
  /\ \E text \in { QueryTexts[Len(objs) + 1] } :
       StringCall("QueryString", StrV(text),
                  [h |-> Append(objs, QueryStringObj(text)), exc |-> "none",
                   out |-> Ref(Len(objs) + 1)])

\* x | y
Or ==
  \E x \in Operands, y \in Operands :
    /\ x.t = "ref" \/ y.t = "ref"
    /\ StringCall("or", << x, y >>, Combine(objs, "OR", x, y))

\* x & y
And ==
  \E x \in Operands, y \in Operands :
    /\ x.t = "ref" \/ y.t = "ref"
    /\ StringCall("and", << x, y >>, Combine(objs, "AND", x, y))

\* ~x
Not ==
  \E at \in 1..Len(objs) : StringCall("invert", Ref(at), Invert(objs, at))

\* str(x)
Render ==
  \E at \in 1..Len(objs) :
    \E r \in { Str(objs, at) } :
      StringCall("str", Ref(at), [h |-> objs, exc |-> r.exc, out |-> r.val])

NextQueryString == NewQueryString \/ Or \/ And \/ Not \/ Render

SpecQueryString == InitQueryString /\ [][NextQueryString]_vars


(***************************************************************************)
(* The record windows a Query requests, send after send                    *)
(***************************************************************************)
MaxEvents == 3

\* The calls that Query.reset is part of, with their arguments and outcome:
\* query[name] = value, del query[name], filterBy and sortBy.
Restarts ==
  { << "setitem", in, QuerySetItem(TheQuery, in[1], in[2]) >> :
      in \in { <<"article_title", StrV(S("t"))>>, <<"article_number", StrV(S("x"))>>,
               <<"doi", StrV(S("10.1234/x"))>> } }
    \cup { << "delitem", name, QueryDelItem(TheQuery, name) >> : name \in {"article_title"} }
    \cup { << "filterBy", kwArgs, QueryFilterBy(TheQuery, kwArgs) >> :
             kwArgs \in { << <<"start_year", IntV(1999)>> >> } }
    \cup { << "sortBy", in, QuerySortBy(TheQuery, in[1], in[2]) >> :
             in \in { << StrV(S("author")), StrV(S("asc")) >>, << StrV(S("author")), NoneV >> } }

\* One of those calls; coll keeps its name, and whether it was carried out:
\* an assignment is when its value passed __check, the others always are.
Restart ==
  /\ Len(coll) < MaxEvents
  /\ \E c \in Restarts :
       /\ QueryCall(c[1], c[2], c[3])
       /\ coll' = Append(coll, [op |-> c[1],
                                done |-> c[1] = "setitem" =>
                                           QueryCheck(TheQuery, c[2][1], c[2][2]).ok])

\* query.send(start): coll keeps the window the database was asked for, its
\* start record and the number of records, max_records or 200.
SendWindow(starts) ==
  /\ Len(coll) < MaxEvents
  /\ \E start \in starts :
       \E r \in { QuerySend(TheQuery, start) } :
         /\ QueryCall("send", start, r)
         /\ coll' = IF r.exc = "none"
                    THEN Append(coll, [op |-> "send",
                                       start |-> DictGet(r.q.params, "start_record").n,
                                       records |-> IF DictHas(r.q.params, "max_records")
                                                   THEN DictGet(r.q.params, "max_records").n
                                                   ELSE 200])
                    ELSE coll

NextWindows ==
  \/ Limit({IntV(1), IntV(2), NoneV}) \/ SendWindow({NoneV, IntV(2)}) \/ Restart

SpecWindows == InitQuery /\ [][NextWindows]_vars
(***************************************************************************)
(* Parsing a file whose whole text is known                                *)
(***************************************************************************)
\* Files with a comment after the header of an entry, between fields, in the
\* citation key, in a field name, in a field value, between entries and in
\* an entry type, with stray characters between entries, with a value that
\* makes the insertion raise, and ending inside nested groups.
ParseTexts ==
  { S("@article{% c\nk1, year = 2020}"),
    S("@article{k1, % c\n year = 2020}"),
    S("@article{k1% c\n, year = 2020}"),
    S("@article{k1, ye% c\nar = 2020}"),
    S("@article{k1, year = 20% c\n20, title = {a}}"),
    S("@article{k1, title = a% c\n\\%b, year = 2020}"),
    S("@article{k1, title = {a% c\nb}, year = 2020% c"),
    S("x, % @c\n @art% c {\nicle{k1} }\n@book %"),
    S(" = @bo%\n%\nok {k2}1"),
    S("@book{k1}@article{pages=12}@book{k2}"),
    S("@book{k1, title = {a{b}c}, note = {d{e{f") }

\* parseFile(bibFile) has just been called on a file holding one such text.
InitTexts ==
  /\ \E text \in ParseTexts :
       /\ call = [op |-> "parseFile", text |-> text]
       /\ buf = text
  /\ nfrag = MaxFrags
  /\ eof = FALSE
  /\ stack = << FileFrame("OUTSIDE", "unset", <<>>) >>
  /\ coll = <<>>
  /\ diags = <<>>
  /\ exc = "none"
  /\ WriterIdle /\ RecordsIdle

NextTexts == FileStep \/ EntryStep \/ GroupStep

SpecTexts == InitTexts /\ [][NextTexts]_vars

\* The loop iterations are taken as long as one is possible.
SpecTextsFair == SpecTexts /\ WF_vars(NextTexts)

(***************************************************************************)
(* C1: parseFile and the exceptions of the validation engine               *)
(***************************************************************************)
\* C1: parsing never raises: whatever the input holds, no exception escapes
\* parseFile.  (BibData.__check catches only ValueError around the coercion,
\* so the TypeError of a single-page "pages" value and the IndexError of a
\* one-letter author or of month 13 escape through parseEntry.)
C1_ParseNeverRaises == exc = "none"

(***************************************************************************)
(* C2: the order of the validation steps                                   *)
(***************************************************************************)
\* The steps of validate, in the order the pipeline is specified.
C2_StepDiag ==
  <<"UnknownField", "TypeMismatch", "BelowMinimum", "AboveMaximum",
    "FailedValidator", "NotInAllowedSet">>

\* Whether step k, taken on its own, fails for the call c: the name does not
\* resolve (1), the coercion is refused (2), the coerced value is smaller
\* than the minimum (3) or larger than the maximum (4), the validator
\* refuses it (5), the value the validator leaves is not allowed (6).
C2_StepFails(c, k) ==
  Bind(LookupField(c.cls, c.name), LAMBDA f :
    IF f.exc # "none" THEN k = 1
    ELSE Bind(Coerce(f.val.type, c.value), LAMBDA v :
      IF v.exc # "none" THEN k = 2
      ELSE Bind(IF f.val.validator = "none" THEN Ok(BoolV(TRUE))
                ELSE Validator(f.val.validator, v.val), LAMBDA r :
        Bind(IF r.exc = "none" /\ r.val # BoolV(TRUE) /\ Truthy(r.val)
             THEN r.val ELSE v.val, LAMBDA w :
          Bind(IF f.val.hasMin THEN Less(v.val, f.val.min) ELSE Ok(FALSE), LAMBDA lo :
            Bind(IF f.val.hasMax THEN Less(f.val.max, v.val) ELSE Ok(FALSE), LAMBDA hi :
              CASE k = 3 -> lo.exc = "none" /\ lo.val
                [] k = 4 -> hi.exc = "none" /\ hi.val
                [] k = 5 -> r.exc = "ValueError" \/ (r.exc = "none" /\ ~Truthy(r.val))
                [] k = 6 -> f.val.hasValues /\ ~InValues(w, f.val.values)
                [] OTHER -> FALSE))))))

C2_FailingSteps(c) == { k \in 1..6 : C2_StepFails(c, k) }

\* The diagnostic of the first of the failing steps, "none" when none fails.
C2_FirstOf(failing) ==
  IF failing = {} THEN "none"
  ELSE C2_StepDiag[CHOOSE k \in failing : \A j \in failing : k <= j]

\* C2: a validate call that returns has warned the diagnostic of the first
\* failing step in the order lookup, coercion, minimum, maximum, validator,
\* allowed set, and nothing when no step fails; it returns a value exactly
\* when no step fails, so a value equal to the minimum or the maximum is
\* accepted; a call that does not return has warned nothing.
C2_FirstFailingStep ==
  call.op = "check" =>
    Bind(C2_FailingSteps(call), LAMBDA failing :
      /\ call.out.exc = "none" => call.out.diag = C2_FirstOf(failing)
      /\ call.out.exc = "none" => ((call.out.val # NoneV) <=> (failing = {}))
      /\ call.out.exc # "none" => (call.out.val = NoneV /\ call.out.diag = "none"))

\* A call in which the maximum, the validator and the allowed set all fail
\* and the maximum's diagnostic is the one warned.
C2_Witness ==
  /\ call.op = "check"
  /\ {4, 5, 6} \subseteq C2_FailingSteps(call)
  /\ call.out.diag = "AboveMaximum"

(***************************************************************************)
(* C3: constructing a record, and inserting its fields one by one          *)
(***************************************************************************)
\* The items whose values pass validation under cls, each with its
\* validated value, in the order supplied.
C3_Accepted(cls, items) ==
  Bind(SelectSeq(items, LAMBDA kv : Check(cls, kv[2], kv[1]).val # NoneV), LAMBDA passed :
    [i \in 1..Len(passed) |-> << passed[i][1], Check(cls, passed[i][2], passed[i][1]).val >>])

\* One diagnostic for each item whose value validation rejects, in the order
\* supplied.
C3_Diagnostics(cls, items) ==
  Bind(SelectSeq(items, LAMBDA kv : Check(cls, kv[2], kv[1]).val = NoneV), LAMBDA failed :
    [i \in 1..Len(failed) |-> Diag(Check(cls, failed[i][2], failed[i][1]).diag, failed[i][1])])

\* C3: a record constructed from a map holds exactly the fields whose values
\* passed validation, with their validated values, and one diagnostic was
\* emitted per rejected field, in the order supplied; inserting a field into
\* a record that does not hold it yet does the same for that field; neither
\* raises.
C3_SoftValidation ==
  /\ call.op = "new" =>
       /\ exc = "none"
       /\ heap[objs[Len(objs)].ref] = C3_Accepted(call.cls, call.items)
       /\ call.diags = C3_Diagnostics(call.cls, call.items)
  /\ (call.op = "set" /\ ~DictHas(call.before, call.name)) =>
       /\ exc = "none"
       /\ call.diags = C3_Diagnostics(objs[call.obj].cls, << <<call.name, call.value>> >>)
       /\ \A kv \in { C3_Accepted(objs[call.obj].cls, << <<call.name, call.value>> >>)[i] :
                        i \in 1..Len(C3_Accepted(objs[call.obj].cls, << <<call.name, call.value>> >>)) } :
            /\ DictHas(heap[objs[call.obj].ref], kv[1])
            /\ DictGet(heap[objs[call.obj].ref], kv[1]) = kv[2]
       /\ call.diags # <<>> => heap[objs[call.obj].ref] = call.before

(***************************************************************************)
(* C4: a well-formed entry                                                 *)
(***************************************************************************)
\* The value the BibTeX schema gives the text of a field: an int for year
\* and volume, an author list for author, a page range for pages (a single
\* page being the range from it to itself), the text otherwise.
C4_Typed(name, text) ==
  CASE name \in { S("year"), S("volume") } -> IntV(DigitsVal(text))
    [] name = S("author") -> AuthorList(StrV(text)).val
    [] name = S("pages") -> [t |-> "pages", begin |-> DigitsVal(text), end |-> DigitsVal(text)]
    [] OTHER -> StrV(text)

\* The fields of the record the entry stands for.
C4_Expected(entry) ==
  { << S("content_type"), StrV(Lower(entry.type)) >>, << S("key"), StrV(entry.key) >> }
    \cup { << Strip(entry.fields[i][1]), C4_Typed(Strip(entry.fields[i][1]), Strip(entry.fields[i][2])) >> :
             i \in 1..Len(entry.fields) }

\* C4: once a well-formed entry has been parsed, the collection holds exactly
\* one record: content_type is the lower-cased type, key the bare leading
\* token, each field the trimmed value coerced by the BibTeX schema, and
\* nothing else.
C4_WellFormedEntry ==
  (call.op = "entry" /\ stack = <<>>) =>
    /\ exc = "none"
    /\ Len(coll) = 1
    /\ { coll[1].data[i] : i \in 1..Len(coll[1].data) } = C4_Expected(call.entry)

(***************************************************************************)
(* C5: the end of the input inside an entry                                *)
(***************************************************************************)
\* How many UnexpectedEndOfInput diagnostics dg holds.
C5_EndCount(dg) == Cardinality({ i \in 1..Len(dg) : dg[i].k = "UnexpectedEndOfInput" })

\* How many parseEntry and parseGroup calls are running in stk.
C5_OpenCalls(stk) == Cardinality({ i \in 1..Len(stk) : stk[i].fn # "parseFile" })

\* C5: when the input ends inside an entry, every call then running warns
\* once as it returns: one UnexpectedEndOfInput for the entry and one for
\* each group open at that point, none before the end of the input and none
\* besides; and the entry's record, holding exactly the fields stored before
\* the end of the input, is appended to the collection.
C5_OneDiagnosticPerOpenCall ==
  /\ [](~eof => C5_EndCount(diags) = 0)
  /\ [](stack = <<>> => C5_OpenCalls(stack) = 0)
  /\ [][eof' =>
          /\ C5_EndCount(diags') + C5_OpenCalls(stack')
               = (IF eof THEN C5_EndCount(diags) ELSE 0) + C5_OpenCalls(stack)
          /\ C5_OpenCalls(stack') = IF C5_OpenCalls(stack) = 0 THEN 0
                                    ELSE C5_OpenCalls(stack) - 1
          /\ (stack # <<>> /\ stack[Len(stack)].fn = "parseEntry") =>
               coll' = Append(coll, Record(BibFileDataType, stack[Len(stack)].bibData))
          /\ (stack = <<>> \/ stack[Len(stack)].fn # "parseEntry") => coll' = coll
     ]_vars

\* The input ended inside a group nested in a group, after the year field
\* was stored: three diagnostics, and the record with the year is appended.
C5_Witness ==
  /\ eof /\ stack = <<>> /\ exc = "none"
  /\ C5_EndCount(diags) = 3
  /\ Len(coll) = 1
  /\ DictHas(coll[1].data, S("year"))

\* C5 as stated: an unterminated entry produces exactly one
\* UnexpectedEndOfInput diagnostic wherever the input ends.
C5_ExactlyOneDiagnostic ==
  (eof /\ stack = <<>> /\ Len(coll) > 0 /\ C5_EndCount(diags) > 0) =>
    C5_EndCount(diags) = 1

(***************************************************************************)
(* C6: writing a record that lacks required fields                         *)
(***************************************************************************)
\* The record has a content_type that bibTypes knows.
C6_Supported(item) ==
  /\ DictHas(item.data, S("content_type"))
  /\ DictGet(item.data, S("content_type")).t = "str"
  /\ BibTypeOf(DictGet(item.data, S("content_type")).s).exc = "none"

\* The record holds field under none of its names.
C6_Unresolved(item, field) ==
  /\ ~Contains(item, field)
  /\ \A i \in 1..Len(AliasesOf(field)) : ~Contains(item, AliasesOf(field)[i])

\* The required fields of the record's entry type it does not resolve, in
\* schema order, each as the diagnostic write owes for it.
C6_Missing(item) ==
  Bind(BibTypeOf(DictGet(item.data, S("content_type")).s).val.required, LAMBDA required :
    Bind(SelectSeq(required, LAMBDA f : C6_Unresolved(item, f)), LAMBDA missing :
      [i \in 1..Len(missing) |-> Diag("MissingRequiredField", missing[i])]))

\* text begins with an entry header and ends with the closing brace and the
\* blank line.
C6_Complete(text) ==
  /\ Len(text) >= 4
  /\ text[1] = "@"
  /\ SubSeq(text, Len(text) - 2, Len(text)) = S("}\n\n")

\* C6: write emits a complete entry for every record of a supported entry
\* type, whatever required fields (author and title included) it lacks: it
\* does not raise, and it emits one MissingRequiredField diagnostic for each
\* missing required field.
C6_WriteCompletes ==
  (call.op = "write" /\ C6_Supported(call.item)) =>
    /\ call.w.exc = "none"
    /\ C6_Complete(call.w.text)
    /\ call.w.diags = C6_Missing(call.item)

(***************************************************************************)
(* C7: the order of the fields write emits                                 *)
(***************************************************************************)
\* The concatenation of a sequence of sequences.
C7_Concat(parts) == Cat(parts, 1, Len(parts))

\* For the schema names in order: <<name, record field>> of each one the
\* record resolves, under its own name or its first present alias.
C7_Resolved(item, names) ==
  C7_Concat([i \in 1..Len(names) |->
    IF Contains(item, names[i]) THEN << <<names[i], names[i]>> >>
    ELSE Bind(SelectSeq(AliasesOf(names[i]), LAMBDA a : Contains(item, a)), LAMBDA present :
           IF present = <<>> THEN <<>> ELSE << <<names[i], present[1]>> >>)])

\* The alias-table fields, in table order, that the schema part has not
\* emitted and that resolve to an alias whose record field it has not
\* emitted either.
C7_AliasResolved(item, schema) ==
  C7_Concat([k \in 1..Len(fieldAliases) |->
    Bind(SelectSeq(fieldAliases[k].aliases, LAMBDA a : Contains(item, a)), LAMBDA present :
      IF \/ present = <<>>
         \/ \E j \in 1..Len(schema) : schema[j][1] = fieldAliases[k].field
         \/ \E j \in 1..Len(schema) : schema[j][2] = present[1]
      THEN <<>>
      ELSE << <<fieldAliases[k].field, present[1]>> >>)])

\* The record's own fields, in its order, that the schema part has not
\* emitted (content_type is the header's).
C7_Remaining(item, schema) ==
  SelectSeq(DictKeys(item.data), LAMBDA f :
    f # S("content_type") /\ \A j \in 1..Len(schema) : schema[j][2] # f)

\* The field lines of the entry in the stated order.
C7_Lines(item, bibType) ==
  Bind(C7_Resolved(item, bibType.required \o bibType.optional), LAMBDA schema :
    Bind(C7_AliasResolved(item, schema), LAMBDA aliased :
      Bind(C7_Remaining(item, schema), LAMBDA rest :
        C7_Concat([i \in 1..Len(schema) |->
                     FieldLine(schema[i][1], GetItem(item, schema[i][2]).val)])
        \o C7_Concat([i \in 1..Len(aliased) |->
                     FieldLine(aliased[i][1], GetItem(item, aliased[i][2]).val)])
        \o C7_Concat([i \in 1..Len(rest) |->
                     FieldLine(rest[i], DictGet(item.data, rest[i]))]))))

\* C7: the text write emits for a record is its header, then its fields in
\* the order required (schema order), optional (schema order),
\* alias-resolved canonical fields not yet emitted (alias-table order),
\* remaining record fields (record order), then the closing brace; the
\* records are written in collection order.
C7_FieldOrder ==
  /\ (call.op = "write" /\ call.w.exc = "none") =>
       call.w.text
         = S("@") \o Upper(DictGet(call.item.data, S("content_type")).s) \o S(" {")
           \o call.key.val \o S(",\n")
           \o C7_Lines(call.item, BibTypeOf(DictGet(call.item.data, S("content_type")).s).val)
           \o S("}\n\n")
  /\ call.op = "write" => call.item = coll[IF exc = "none" THEN wpos ELSE wpos + 1]

(***************************************************************************)
(* C8: the generated citation key                                          *)
(***************************************************************************)
\* The record's author list: its author field, else its authors field.
C8_Authors(item) ==
  IF Contains(item, S("author")) THEN GetItem(item, S("author")).val.l
  ELSE GetItem(item, S("authors")).val.l

\* The year under year, publication_year or conference_year, whichever the
\* record has first, as text; empty when it has none.
C8_Year(item) ==
  Bind(SelectSeq(<< S("year"), S("publication_year"), S("conference_year") >>,
                 LAMBDA f : Contains(item, f)), LAMBDA present :
    IF present = <<>> THEN <<>> ELSE PyStr(GetItem(item, present[1]).val))

\* The text before the first "." of s, the whole of s when it has none.
RECURSIVE C8_FirstSegment(_)
C8_FirstSegment(s) ==
  IF s = <<>> \/ Head(s) = "." THEN <<>> ELSE <<Head(s)>> \o C8_FirstSegment(Tail(s))

\* The publication code: Result records compute it from their DOI, when the
\* DOI suffix has a "."; other records have none.
C8_Code(item) ==
  IF /\ item.cls = "Result"
     /\ DictHas(item.data, S("doi"))
     /\ \E i \in 1..Len(DictGet(item.data, S("doi")).suffix) :
          DictGet(item.data, S("doi")).suffix[i] = "."
  THEN C8_FirstSegment(DictGet(item.data, S("doi")).suffix)
  ELSE <<>>

\* C8: the key generated for a record with authors a1..an is surname(a1),
\* then the upper-cased surname initials of a2..an in order, then the year
\* if one is resolvable under year or an alias of it, then the publication
\* code if the record has one, with no separators; the code is the first
\* dot-delimited segment of the DOI suffix and exists only when the suffix has
\* more than one segment.
C8_KeyShape ==
  (call.op = "write" /\ call.key.exc = "none") =>
    Bind(C8_Authors(call.item), LAMBDA a :
      call.key.val
        = a[1].name \o [i \in 1..(Len(a) - 1) |-> UpperC(a[i + 1].name[1])]
          \o C8_Year(call.item) \o C8_Code(call.item))

\* A Result with two authors, a publication year and a DOI whose suffix has
\* several segments has been given its key.
C8_Witness ==
  /\ call.op = "write"
  /\ call.item.cls = "Result"
  /\ call.key = Ok(S("SmithL2020TPEL"))

(***************************************************************************)
(* C9: writing a collection and reading it back                            *)
(***************************************************************************)
\* The record read back holds, under each required or optional name of the
\* written record's entry type that write resolved, the value written.
C9_SameFields(written, read) ==
  Bind(BibTypeOf(DictGet(written.data, S("content_type")).s).val, LAMBDA bibType :
    \A i \in 1..Len(bibType.required \o bibType.optional) :
      Bind((bibType.required \o bibType.optional)[i], LAMBDA f :
        getField(written, f) # <<>> =>
          /\ DictHas(read.data, f)
          /\ DictGet(read.data, f) = GetItem(written, getField(written, f)[1]).val))

\* C9: once the written text has been read back, the collection has as many
\* records as were written, in the same order, and each holds every required
\* and optional field that was emitted for it, with the same typed value.
C9_RoundTrip ==
  (call.op = "read" /\ stack = <<>>) =>
    /\ exc = "none"
    /\ Len(coll) = Len(call.written)
    /\ \A i \in 1..Len(coll) : C9_SameFields(call.written[i], coll[i])

(***************************************************************************)
(* C10: stored values and the schema of the record that holds them         *)
(***************************************************************************)
\* v is a value of the declared type.
C10_HasType(type, v) ==
  CASE type = "str" -> v.t = "str"
    [] type = "int" -> v.t = "int"
    [] type \in {"AuthorList", "ResultAuthorList"} -> v.t = "authors"
    [] type = "DOI" -> v.t = "doi"
    [] type = "PageRange" -> v.t = "pages"

\* v under name satisfies the schema of class cls.
C10_Conforms(cls, name, v) ==
  Bind(LookupField(cls, name), LAMBDA field :
    /\ field.exc = "none"
    /\ C10_HasType(field.val.type, v)
    /\ field.val.hasMin => Less(v, field.val.min) = Ok(FALSE)
    /\ field.val.hasMax => Less(field.val.max, v) = Ok(FALSE)
    /\ field.val.hasValues => InValues(v, field.val.values))

\* C10: every value a record holds satisfies the schema of that record's own
\* class for its field name.
C10_StoredValuesConform ==
  \A o \in 1..Len(objs) :
    \A i \in 1..Len(heap[objs[o].ref]) :
      C10_Conforms(objs[o].cls, heap[objs[o].ref][i][1], heap[objs[o].ref][i][2])

(***************************************************************************)
(* C11: a copied record and the record it was copied from                  *)
(***************************************************************************)
\* The fields and values the record object o holds.
C11_Fields(o) == heap[objs[o].ref]

\* C11: a copy of a record is a snapshot: a single-field insertion into one
\* record object (a copy, or the original a copy was made from) changes the
\* fields and values of no other record object.
C11_CopyIsSnapshot ==
  [][ call'.op = "set" =>
        \A p \in 1..Len(objs) :
          p # call'.obj => heap'[objs'[p].ref] = C11_Fields(p) ]_vars

(***************************************************************************)
(* C12: a field inserted into a record that already holds it               *)
(***************************************************************************)
\* The running parseEntry call stores a field on reading c: the bare key at
\* a `,` or `}` that ends a field name, the field at the `}` or the
\* unescaped `,` that ends its value.
C12_Stores(f, c) ==
  \/ f.mode = "FIELD_NAME" /\ c \in {",", "}"}
  \/ f.mode = "FIELD_VALUE" /\ (c = "}" \/ (c = "," /\ ~f.escaped))

\* The name and the raw value of that store.
C12_Stored(f) ==
  IF f.mode = "FIELD_NAME" THEN << S("key"), StrV(Strip(f.fieldName)) >>
  ELSE << Strip(f.fieldName), StrV(Strip(f.fieldValue)) >>

\* value is valid for the field name of class cls.
C12_Valid(cls, name, value) ==
  Check(cls, value, name).exc = "none" /\ Check(cls, value, name).val # NoneV

\* after is before with name holding the validated value, nothing else changed.
C12_Overwritten(cls, before, after, name, value) ==
  /\ DictKeys(after) = DictKeys(before)
  /\ \A i \in 1..Len(before) :
       after[i][2] = IF before[i][1] = name THEN Check(cls, value, name).val
                     ELSE before[i][2]

\* C12: inserting a valid value for a field the record already holds reports
\* exactly one DuplicateField diagnostic and leaves the record holding the
\* new value, the other fields untouched; so does the parser when an entry
\* names a field, or gives a bare key, a second time.
C12_OverwriteWithDiagnostic ==
  /\ []((/\ call.op = "set"
         /\ DictHas(call.before, call.name)
         /\ C12_Valid(objs[call.obj].cls, call.name, call.value)) =>
          /\ exc = "none"
          /\ call.diags = << Diag("DuplicateField", call.name) >>
          /\ C12_Overwritten(objs[call.obj].cls, call.before, heap[objs[call.obj].ref],
                             call.name, call.value))
  /\ [][(/\ stack # <<>> /\ Top.fn = "parseEntry" /\ buf # <<>>
         /\ C12_Stores(Top, Head(buf))
         /\ DictHas(Top.bibData, C12_Stored(Top)[1])
         /\ C12_Valid("BibTeXData", C12_Stored(Top)[1], C12_Stored(Top)[2])) =>
          /\ exc' = "none"
          /\ diags' = Append(diags, Diag("DuplicateField", C12_Stored(Top)[1]))
          /\ C12_Overwritten("BibTeXData", Top.bibData,
                             IF Head(buf) = "}" THEN coll'[Len(coll')].data
                             ELSE stack'[Len(stack')].bibData,
                             C12_Stored(Top)[1], C12_Stored(Top)[2])
     ]_vars

\* The entry that gives year twice has been parsed: one DuplicateField
\* diagnostic, and the record holds the second year.
C12_Witness ==
  /\ call.op = "parse" /\ stack = <<>> /\ exc = "none"
  /\ diags = << Diag("DuplicateField", S("year")) >>
  /\ Len(coll) = 1
  /\ DictGet(coll[1].data, S("year")) = IntV(2021)

(***************************************************************************)
(* C13: validating a validated value                                       *)
(***************************************************************************)
\* C13: validation is idempotent: a value the pipeline returned for storing,
\* validated again under the same field specification, is accepted and
\* comes back unchanged.
C13_Idempotent ==
  call.op = "recheck" => call.out = Checked(call.value)

(***************************************************************************)
(* C14: what the validator returns                                         *)
(***************************************************************************)
\* The call c reaches the validator step: the field is declared with a
\* validator, the value is coerced and it is within the declared bounds.
C14_ReachesValidator(c) ==
  Bind(LookupField(c.cls, c.name), LAMBDA f :
    /\ f.exc = "none"
    /\ f.val.validator # "none"
    /\ Coerce(f.val.type, c.value).exc = "none"
    /\ f.val.hasMin => Less(Coerce(f.val.type, c.value).val, f.val.min) = Ok(FALSE)
    /\ f.val.hasMax => Less(f.val.max, Coerce(f.val.type, c.value).val) = Ok(FALSE))

\* What the validator of the call's field returns for the coerced value.
C14_Returned(c) ==
  Bind(LookupField(c.cls, c.name).val, LAMBDA f :
    Validator(f.validator, Coerce(f.type, c.value).val))

\* The three-letter form of a month name.
C14_ThreeLetters(name) == SubSeq(Lower(name), 1, 3)

\* C14: when the validator returns a truthy result that is not a boolean,
\* that result is stored in place of the coerced value, provided it is in
\* the allowed set when one is declared, and NotInAllowedSet is reported
\* when it is not; when the validator returns false the field is rejected
\* with FailedValidator. So a month name is stored as its three-letter form
\* and an IEEE content type as its BibTeX entry type.
C14_ValidatorResultStored ==
  (call.op = "check" /\ C14_ReachesValidator(call) /\ C14_Returned(call).exc = "none") =>
    Bind(LookupField(call.cls, call.name).val, LAMBDA f :
      Bind(C14_Returned(call).val, LAMBDA r :
        /\ r = BoolV(FALSE) => call.out = Rejected("FailedValidator")
        /\ (r.t # "bool" /\ Truthy(r)) =>
             call.out = IF f.hasValues /\ ~InValues(r, f.values)
                        THEN Rejected("NotInAllowedSet")
                        ELSE Checked(r)
        /\ (call.cls = "BibTeXData" /\ call.name = S("month") /\ call.value.t = "str"
              /\ IndexOf(longMonths, Lower(call.value.s)) > 0) =>
             call.out = Checked(StrV(C14_ThreeLetters(call.value.s)))
        /\ (call.cls = "Result" /\ call.name = S("content_type")
              /\ call.value = StrV(S("Journals"))) =>
             call.out = Checked(StrV(S("article")))))

\* A month name outside the allowed set whose three-letter form is in it
\* has been accepted, and stored as the three-letter form.
C14_Witness ==
  /\ call.op = "check"
  /\ call.cls = "ProbeData" /\ call.name = S("k")
  /\ call.value = StrV(S("january"))
  /\ call.out = Checked(StrV(S("jan")))

(***************************************************************************)
(* C15: a validator that raises                                            *)
(***************************************************************************)
\* C15: when the validator of a field raises, whatever the exception, the
\* call returns without a value and reports FailedValidator; the exception
\* does not reach the caller.
C15_ValidatorExceptionRejected ==
  (call.op = "check" /\ C14_ReachesValidator(call) /\ C14_Returned(call).exc # "none") =>
    call.out = Rejected("FailedValidator")

(***************************************************************************)
(* C16: append, merge, and construction from a list                        *)
(***************************************************************************)
\* The records of the collection s, as the fields each one holds, in order.
C16_Contents(s) ==
  [i \in 1..Len(lists[sets[s].ref]) |-> heap[objs[lists[sets[s].ref][i]].ref]]

\* Every field of the raw element passes validation for class cls.
C16_ValidElement(cls, items) ==
  \A i \in 1..Len(items) :
    Check(cls, items[i][2], items[i][1]).exc = "none"
      /\ Check(cls, items[i][2], items[i][1]).val # NoneV

\* C16: appending a record to a collection adds it as the last element;
\* merging a collection B into another collection A makes A its previous
\* elements followed by B's elements in B's order and leaves B as it was;
\* a collection constructed from a list of n valid raw elements holds n
\* records in list order.
C16_AppendMergeConstruct ==
  [][ /\ call'.op = "add" =>
           /\ Len(lists'[sets'[call'.set].ref]) = Len(lists[sets[call'.set].ref]) + 1
           /\ SubSeq(lists'[sets'[call'.set].ref], 1, Len(lists[sets[call'.set].ref]))
                = lists[sets[call'.set].ref]
           /\ heap'[objs'[lists'[sets'[call'.set].ref][Len(lists'[sets'[call'.set].ref])]].ref]
                = heap[objs[call'.obj].ref]
      /\ (call'.op = "merge" /\ call'.set # call'.other) =>
           /\ lists'[sets'[call'.set].ref]
                = lists[sets[call'.set].ref] \o lists[sets[call'.other].ref]
           /\ lists'[sets'[call'.other].ref] = lists[sets[call'.other].ref]
           /\ heap' = heap
      /\ (call'.op = "newsetfrom"
            /\ \A i \in 1..Len(call'.elems) :
                 C16_ValidElement(DataType(call'.cls), call'.elems[i])) =>
           /\ exc' = "none"
           /\ Len(sets') = Len(sets) + 1
           /\ Len(lists'[sets'[Len(sets')].ref]) = Len(call'.elems)
           /\ \A i \in 1..Len(call'.elems) :
                heap'[objs'[lists'[sets'[Len(sets')].ref][i]].ref]
                  = C3_Accepted(DataType(call'.cls), call'.elems[i])
    ]_vars

(***************************************************************************)
(* C17: a list with an element that cannot be constructed                  *)
(***************************************************************************)
\* The records of the elements whose constructor returns, in list order.
C17_Constructed(dataType, elems) ==
  Bind(SelectSeq(elems, LAMBDA e : BibDataInit(dataType, e).exc = "none"), LAMBDA kept :
    [i \in 1..Len(kept) |-> BibDataInit(dataType, kept[i]).data])

\* C17: a collection constructed from a list of raw elements holds the
\* record of every element whose constructor succeeds, in the original
\* relative order; an element whose constructor fails is dropped alone, and
\* the construction does not raise.
C17_DropsOnlyInvalid ==
  call.op = "newsetfrom" =>
    /\ exc = "none"
    /\ C16_Contents(Len(sets)) = C17_Constructed(DataType(call.cls), call.elems)

(***************************************************************************)
(* C18: the end of the input inside an entry type                          *)
(***************************************************************************)
\* C18: when the input ends while parseFile is in ENTRY_TYPE (after `@`,
\* before the opening brace), one UnexpectedEndOfInput diagnostic is
\* reported, no record is appended and parsing terminates.
C18_EndInEntryType ==
  [][ (stack # <<>> /\ Top.fn = "parseFile" /\ Top.mode = "ENTRY_TYPE" /\ eof') =>
        /\ stack' = <<>>
        /\ coll' = coll
        /\ Len(diags') = Len(diags) + 1
        /\ diags'[Len(diags')].k = "UnexpectedEndOfInput"
    ]_vars

(***************************************************************************)
(* C19: the backslash                                                      *)
(***************************************************************************)
\* The character at index i of text is escaped: it follows a backslash that
\* is not escaped itself, that is, an odd run of backslashes.
C19_Escaped(text, i) ==
  Cardinality({ j \in 1..(i - 1) : \A m \in j..(i - 1) : text[m] = "\\" }) % 2 = 1

\* The index in the text of the character read next.
C19_Position == Len(call.text) - Len(buf) + 1

\* The character c, read by the running call f, takes its special effect:
\* in a field value `,` ends the field, `}` closes the entry, `{` opens a
\* group and `%` starts a comment; in a group `}` closes it, `{` opens a
\* nested group and `%` starts a comment.
C19_Special(f, c, after) ==
  IF f.fn = "parseEntry"
  THEN CASE c = "," -> Len(after) = Len(stack) /\ after[Len(after)].mode = "OUTSIDE"
         [] c = "}" -> Len(after) < Len(stack)
         [] c = "{" -> Len(after) > Len(stack)
         [] c = "%" -> Len(after) = Len(stack) /\ after[Len(after)].mode = "COMMENT"
  ELSE CASE c = "}" -> Len(after) < Len(stack)
         [] c = "{" -> Len(after) > Len(stack)
         [] c = "%" -> Len(after) = Len(stack) /\ after[Len(after)].commented

\* C19: a backslash in a field value or in a group escapes exactly the next
\* character: a `,`, `}`, `{` or `%` takes its special effect exactly when it
\* is not escaped, so the effect of a backslash ends with the character
\* after it and carries over neither to later characters nor to later fields.
C19_EscapesNextOnly ==
  [][ (/\ stack # <<>> /\ buf # <<>>
       /\ \/ Top.fn = "parseEntry" /\ Top.mode = "FIELD_VALUE"
             /\ Head(buf) \in {",", "}", "{", "%"}
          \/ Top.fn = "parseGroup" /\ ~Top.commented
             /\ Head(buf) \in {"}", "{", "%"}) =>
        (C19_Special(Top, Head(buf), stack') <=> ~C19_Escaped(call.text, C19_Position))
    ]_vars

(***************************************************************************)
(* C20: what parseGroup returns for a balanced group                       *)
(***************************************************************************)
\* How many of the characters text[lo..hi] are c.
C20_Count(text, lo, hi, c) == Cardinality({ i \in lo..hi : text[i] = c })

\* text[lo..hi] is balanced: as many `{` as `}`, and no prefix closes more
\* than it opens.
C20_Balanced(text, lo, hi) ==
  /\ C20_Count(text, lo, hi, "{") = C20_Count(text, lo, hi, "}")
  /\ \A k \in lo..hi : C20_Count(text, lo, k, "{") >= C20_Count(text, lo, k, "}")

\* The index of the `{` that the `}` at index p closes.
C20_Opening(text, p) ==
  CHOOSE q \in 1..(p - 1) : text[q] = "{" /\ C20_Balanced(text, q + 1, p - 1)

\* s with every maximal run of whitespace replaced by one space.
RECURSIVE C20_Collapse(_)
C20_Collapse(s) ==
  IF s = <<>> THEN <<>>
  ELSE IF ~IsSpace(Head(s)) THEN << Head(s) >> \o C20_Collapse(Tail(s))
  ELSE IF Len(s) > 1 /\ IsSpace(s[2]) THEN C20_Collapse(Tail(s))
  ELSE << " " >> \o C20_Collapse(Tail(s))

\* The index in the text of the character read next.
C20_Position == Len(call.text) - Len(buf) + 1

\* C20: when parseGroup reads the `}` that matches its opening brace, at any
\* nesting depth, it returns to its caller exactly the text between the two
\* braces, nested groups with their braces, every maximal run of whitespace
\* collapsed to one space: parseEntry appends it to the field value, an
\* enclosing parseGroup appends it re-wrapped in braces; and the input is
\* left immediately after that `}`.
C20_GroupText ==
  [][ (stack # <<>> /\ Top.fn = "parseGroup" /\ buf # <<>> /\ Head(buf) = "}") =>
        Bind(C20_Collapse(SubSeq(call.text, C20_Opening(call.text, C20_Position) + 1,
                                 C20_Position - 1)), LAMBDA inner :
          /\ Len(stack') = Len(stack) - 1
          /\ stack[Len(stack')].fn = "parseEntry" =>
               stack'[Len(stack')].fieldValue = stack[Len(stack')].fieldValue \o inner
          /\ stack[Len(stack')].fn = "parseGroup" =>
               stack'[Len(stack')].group
                 = stack[Len(stack')].group \o <<"{">> \o inner \o <<"}">>
          /\ buf' = SubSeq(call.text, C20_Position + 1, Len(call.text)))
    ]_vars

\* The group nested three deep has been returned to parseEntry: the value
\* holds the inner groups with their braces and the run of spaces as one.
C20_Witness ==
  /\ call.op = "group"
  /\ stack # <<>> /\ Top.fn = "parseEntry"
  /\ Top.fieldValue = S(" a {b {c d}} e")
  /\ buf = S(", year = 2020}")

(***************************************************************************)
(* C21: the shape of a DOI                                                 *)
(***************************************************************************)
\* The text is `10.`, four characters, `/` and one or more characters, all
\* the characters after `10.` but the separating `/` being none of the
\* excluded ones.
C21_Shape(text, excluded) ==
  /\ Len(text) >= 9
  /\ text[1] = "1" /\ text[2] = "0" /\ text[3] = "."
  /\ text[8] = "/"
  /\ \A i \in (4..7) \cup (9..Len(text)) : text[i] \notin excluded

\* The call made a DOI whose prefix is the text before the separating `/`
\* and whose suffix is the rest.
C21_Made ==
  /\ call.out.exc = "none"
  /\ call.out.val.t = "doi"
  /\ call.out.val.prefix = SubSeq(call.value, 1, 7)
  /\ call.out.val.prefix \o <<"/">> \o call.out.val.suffix = call.value

\* The call failed with an error and made no DOI.
C21_Failed == call.out.exc # "none" /\ call.out.val = NoneV

\* C21 as stated: DOI construction succeeds exactly for `10.` + four
\* arbitrary characters + `/` + one or more characters, with prefix + `/` +
\* suffix equal to the input, and fails with an error for every other string.
C21_AnyCharacters ==
  call.op = "DOI" =>
    IF C21_Shape(call.value, {}) THEN C21_Made ELSE C21_Failed

\* C21: DOI construction succeeds exactly for `10.` + four characters other
\* than a line feed + `/` + one or more characters other than a line feed,
\* with the text before the separating `/` as prefix and the rest as suffix,
\* and fails with an error, making no DOI, for every other string.
C21_NoLineFeed ==
  call.op = "DOI" =>
    IF C21_Shape(call.value, {"\n"}) THEN C21_Made ELSE C21_Failed

\* A DOI was made from a text with a `/` among its four characters.
C21_Witness ==
  /\ call.op = "DOI"
  /\ call.out.exc = "none"
  /\ \E i \in 4..7 : call.value[i] = "/"

(***************************************************************************)
(* C22: the ISBN validator                                                 *)
(***************************************************************************)
\* The number of hyphens of the text.
C22_Hyphens(text) == Cardinality({ i \in 1..Len(text) : text[i] = "-" })

\* The text is made of groups of digits separated by single hyphens, their
\* number being one of counts.
C22_NumericGroups(text, counts) ==
  /\ text # <<>>
  /\ \A i \in 1..Len(text) : IsDigit(text[i]) \/ text[i] = "-"
  /\ IsDigit(text[1]) /\ IsDigit(text[Len(text)])
  /\ \A i \in 1..(Len(text) - 1) : ~(text[i] = "-" /\ text[i + 1] = "-")
  /\ (C22_Hyphens(text) + 1) \in counts

\* The value of the i-th digit of the text, hyphens not counted.
C22_Digit(text, i) ==
  DigitsVal(<< SelectSeq(text, LAMBDA c : c # "-")[i] >>)

\* The text has ten digits whose sum weighted 10, 9, ..., 1 is a multiple of
\* 11, or thirteen digits whose sum weighted 1, 3, 1, 3, ... is a multiple
\* of 10.
C22_CheckSum(text) ==
  LET n == Len(text) - C22_Hyphens(text)
      d(i) == C22_Digit(text, i)
  IN  \/ /\ n = 10
         /\ (10 * d(1) + 9 * d(2) + 8 * d(3) + 7 * d(4) + 6 * d(5)
               + 5 * d(6) + 4 * d(7) + 3 * d(8) + 2 * d(9) + d(10)) % 11 = 0
      \/ /\ n = 13
         /\ (d(1) + 3 * d(2) + d(3) + 3 * d(4) + d(5) + 3 * d(6) + d(7)
               + 3 * d(8) + d(9) + 3 * d(10) + d(11) + 3 * d(12) + d(13)) % 10 = 0

\* C22 as stated: isbnValidator returns true exactly when the string is 3 or
\* 4 hyphen-separated numeric groups and has 10 digits whose sum weighted
\* 10..1 is a multiple of 11 or 13 digits whose sum weighted 1,3,1,3,... is a
\* multiple of 10.
C22_ThreeOrFourGroups ==
  call.op = "isbnValidator" =>
    (call.out <=> (C22_NumericGroups(call.value, {3, 4}) /\ C22_CheckSum(call.value)))

\* C22: isbnValidator returns true exactly when the string is 4 or 5
\* hyphen-separated numeric groups (three or four groups each followed by a
\* hyphen, then a last group) and has 10 digits whose sum weighted 10..1 is
\* a multiple of 11 or 13 digits whose sum weighted 1,3,1,3,... is a multiple
\* of 10; any other shape or digit count is invalid.
C22_FourOrFiveGroups ==
  call.op = "isbnValidator" =>
    (call.out <=> (C22_NumericGroups(call.value, {4, 5}) /\ C22_CheckSum(call.value)))

\* A 13-digit number in five groups was found valid.
C22_Witness ==
  /\ call.op = "isbnValidator"
  /\ call.out
  /\ C22_Hyphens(call.value) = 4
  /\ Len(call.value) = 17

(***************************************************************************)
(* C23: the ISSN validator                                                 *)
(***************************************************************************)
\* The text is four digits, a hyphen and four digits.
C23_TwoGroupsOfFour(text) ==
  /\ Len(text) = 9
  /\ text[5] = "-"
  /\ \A i \in (1..4) \cup (6..9) : IsDigit(text[i])

\* The sum of the eight digits weighted 8, 7, ..., 1 is a multiple of 11.
C23_CheckSum(text) ==
  LET d(i) == DigitsVal(<< text[i] >>)
  IN  (8 * d(1) + 7 * d(2) + 6 * d(3) + 5 * d(4)
         + 4 * d(6) + 3 * d(7) + 2 * d(8) + d(9)) % 11 = 0

\* C23: issnValidator returns true exactly when the string is two groups of
\* four digits separated by one hyphen and the sum of its eight digits
\* weighted 8, 7, ..., 1 is a multiple of 11; every other string is invalid.
C23_IssnExactly ==
  call.op = "issnValidator" =>
    (call.out <=> (C23_TwoGroupsOfFour(call.value) /\ C23_CheckSum(call.value)))

\* The number 0378-5955 was found valid.
C23_Witness ==
  /\ call.op = "issnValidator"
  /\ call.out
  /\ call.value = S("0378-5955")

(***************************************************************************)
(* C24: constructing an Author                                             *)
(***************************************************************************)
\* The tokens of the text between spaces, trimmed, that are longer than one
\* character.
C24_Tokens(text) ==
  LET parts == Split(text, <<" ">>)
  IN  SelectSeq([i \in 1..Len(parts) |-> Strip(parts[i])], LAMBDA p : Len(p) >= 2)

\* The call made an Author with this surname and these forenames, whose
\* initial is the upper-cased first character of the surname and whose string
\* form is the surname, a comma, a space and the forenames joined by spaces.
C24_Is(name, forenames) ==
  /\ call.out.exc = "none"
  /\ call.out.val.name = name
  /\ call.out.val.forenames = forenames
  /\ name # <<>>
  /\ call.views.initial = Ok(<< UpperC(name[1]) >>)
  /\ call.views.str = name \o S(", ") \o Join(<<" ">>, forenames)

\* C24: from a list, element 0 is the surname and the rest are the forenames;
\* from a string with one comma, the trimmed text before the comma is the
\* surname and the tokens after it longer than one character the forenames;
\* from a string with no comma, the last token longer than one character is
\* the surname and the tokens before it the forenames; a string with another
\* number of commas fails construction; the initial and the string form are
\* those of the surname and forenames.
C24_AuthorRules ==
  call.op = "Author" =>
    IF call.value.t = "list"
    THEN call.value.l # <<>> =>
           C24_Is(call.value.l[1].s,
                  [i \in 1..(Len(call.value.l) - 1) |-> call.value.l[i + 1].s])
    ELSE LET text == call.value.s
             comma == IndexOf(text, ",")
             commas == Cardinality({ i \in 1..Len(text) : text[i] = "," })
             tokens == C24_Tokens(text)
         IN  IF commas = 1
             THEN C24_Is(Strip(SubSeq(text, 1, comma - 1)),
                         C24_Tokens(SubSeq(text, comma + 1, Len(text))))
             ELSE IF commas = 0
             THEN /\ tokens # <<>>
                  /\ C24_Is(tokens[Len(tokens)], SubSeq(tokens, 1, Len(tokens) - 1))
             ELSE call.out.exc # "none"

(***************************************************************************)
(* C25: the parameters that exclude the others                             *)
(***************************************************************************)
\* The search parameters declared 'alone'.
C25_AloneNames == { name \in DOMAIN QueryParams :
                      \E i \in 1..Len(QueryParams[name].rules) :
                        QueryParams[name].rules[i] = <<"alone", TRUE>> }

\* The search, filter, sort and limit parameters of a dict: all but the
\* start record.
C25_Stored(params) ==
  { params[i][1] : i \in 1..Len(params) } \ {"start_record"}

\* C25: in every state of a Query, a stored 'alone' search parameter (doi or
\* article_number) is the only search, filter, sort or limit parameter
\* stored.
C25_AloneIsOnly ==
  \A name \in C25_AloneNames :
    name \in C25_Stored(heap[1]) => C25_Stored(heap[1]) = {name}

(***************************************************************************)
(* C26: the range of years                                                 *)
(***************************************************************************)
\* The year a stored value stands for: the int itself, or the int a string
\* is read as.
C26_Year(value) == PyInt(value).val.n

\* C26: in every state of a Query, if both start_year and end_year are
\* stored then start_year <= end_year.
C26_YearsOrdered ==
  (DictHas(heap[1], "start_year") /\ DictHas(heap[1], "end_year")) =>
    C26_Year(DictGet(heap[1], "start_year")) <= C26_Year(DictGet(heap[1], "end_year"))

(***************************************************************************)
(* C27: the start record of the requests                                   *)
(***************************************************************************)
\* The step to the next page: the stored limit, 200 when none is stored.
C27_Step(params) ==
  IF DictHas(params, "max_records") THEN DictGet(params, "max_records").n ELSE 200

\* C27: the first send() of a Query requests start_record = 1; a send() that
\* follows a send() with no call in between requests the previous start
\* record plus max_records, plus 200 when no limit is stored; send(start)
\* requests the given start; no request carries a limit above 200.
C27_StartRecords ==
  [][ (call'.op = "send" /\ call'.exc = "none") =>
        LET request == heap'[1]
            start == DictGet(request, "start_record")
        IN  /\ call'.args # NoneV => start = call'.args
            /\ (call'.args = NoneV /\ coll = <<>>) => start = IntV(1)
            /\ (call'.args = NoneV /\ call.op = "send" /\ call.exc = "none") =>
                 start = IntV(coll[Len(coll)].n + C27_Step(request))
            /\ C27_Step(request) <= 200
    ]_vars

(***************************************************************************)
(* C28: fetchMore and complete(lazy=False)                                 *)
(***************************************************************************)
\* The records of a database of total records, in database order.
C28_Records(total) == [i \in 1..total |-> i]

\* fetchMore appends the page the database answers with after the elements
\* the set holds; when the database answers with no article it raises
\* EOFError and the set is unchanged.
C28_FetchMore ==
  call'.op = "fetchMore" =>
    LET more == Page(TheDatabase.total, heap'[1])
    IN  /\ coll' = Append(coll, DictGet(heap'[1], "start_record"))
        /\ IF more = <<>>
           THEN call'.exc = "EOFError" /\ lists' = lists /\ sets' = sets
           ELSE call'.exc = "none" /\ call'.out = more /\ lists' = << lists[1] \o more >>

\* The requests of a complete(lazy=False): one per non-empty page and a last
\* one the database answers with no article.
C28_Requests ==
  LET issued == SubSeq(coll', Len(coll) + 1, Len(coll'))
  IN  /\ issued # <<>>
      /\ \A i \in 1..Len(issued) : (issued[i].n > TheDatabase.total) <=> (i = Len(issued))

\* complete(lazy=False) returns the set, which holds then every record of the
\* database once, in database order.
C28_Complete ==
  (call'.op = "complete" /\ call'.args = FALSE) =>
    /\ call'.exc = "none"
    /\ lists' = << C28_Records(TheDatabase.total) >>
    /\ call'.out = lists'[1]
    /\ C28_Requests

\* C28: fetchMore appends the next page of results after the existing ones
\* and, when the database returns no further article, raises EOFError and
\* leaves the set unchanged; complete(lazy=False) repeats fetchMore until
\* then, so that the set holds afterwards all total_records results once
\* each in database order, having issued one query per non-empty page plus
\* one final empty query.
C28_FetchAndComplete == [][C28_FetchMore /\ C28_Complete]_vars

(***************************************************************************)
(* C29: the lazily complete ResultSet                                      *)
(***************************************************************************)
\* complete() issues no query, changes no element and returns the set.
C29_CompleteLazy ==
  (call'.op = "complete" /\ call'.args = TRUE) =>
    /\ call'.exc = "none" /\ sets'[1].lazy
    /\ coll' = coll /\ lists' = lists /\ call'.out = lists[1]

\* len() of a lazily complete set is total_records, with no query issued.
C29_Length ==
  (call'.op = "len" /\ TheSet.lazy) =>
    /\ call'.out = TheDatabase.total /\ call'.exc = "none"
    /\ coll' = coll /\ lists' = lists

\* An element the set holds already is read with no query issued.
C29_Held ==
  (call'.op = "getitem" /\ TheSet.lazy /\ call'.args < Len(lists[1])) =>
    /\ call'.out = lists[1][call'.args + 1] /\ call'.exc = "none"
    /\ coll' = coll /\ lists' = lists

\* An iteration of a lazily complete set yields every record of the
\* database once, in database order, and ends normally.
C29_Iteration ==
  (call'.op = "iter" /\ TheSet.lazy) =>
    /\ call'.out = C28_Records(TheDatabase.total)
    /\ call'.exc = "none"

\* C29: after complete() in lazy mode no query is issued until an element
\* not yet fetched is needed: len() reports total_records at once, and
\* iterating the set yields all total_records results once each in database
\* order, the missing pages being fetched on demand, also when the set is
\* iterated more than once.
C29_LazyComplete ==
  [][C29_CompleteLazy /\ C29_Length /\ C29_Held /\ C29_Iteration]_vars

(***************************************************************************)
(* C30: a compound holds a literal that is not negated                     *)
(***************************************************************************)
\* No OR compound has a negated QueryString among its children.
C30_NoNegatedInOr(h) ==
  \A at \in 1..Len(h) :
    (h[at].cls = "Compound" /\ h[at].operator = "OR") =>
      \A i \in 1..Len(h[at].children) : ~IsNegatedString(h, h[at].children[i])

\* x | y raises ValueError when x or y is a negated QueryString.
C30_OrRejects ==
  (call'.op = "or" /\ \E i \in 1..2 : call'.args[i].t = "ref"
                                      /\ IsNegatedString(objs, call'.args[i].at)) =>
    call'.exc = "ValueError" /\ objs' = objs

\* str() of an AND compound whose children are all negated raises
\* ValueError.
C30_AndRejects ==
  (/\ call'.op = "str"
   /\ objs[call'.args.at].cls = "Compound"
   /\ objs[call'.args.at].operator = "AND"
   /\ \A i \in 1..Len(objs[call'.args.at].children) :
        IsNegatedString(objs, objs[call'.args.at].children[i])) =>
    call'.exc = "ValueError"

\* C30: every OR/AND compound contains at least one literal that is not
\* negated: an OR compound never has a negated QueryString as a child,
\* combining one with | raising ValueError, and rendering an AND compound
\* whose children are all negated raises ValueError, after any sequence of
\* constructions and of &, | and ~ on the operands.
C30_NonNegatedLiteral ==
  [][C30_NoNegatedInOr(objs') /\ C30_OrRejects /\ C30_AndRejects]_vars

(***************************************************************************)
(* C31: what ends a field value                                            *)
(***************************************************************************)
\* parseEntry is reading a field value and c is read next.
C31_InValue(c) ==
  /\ stack # <<>> /\ buf # <<>>
  /\ Top.fn = "parseEntry" /\ Top.mode = "FIELD_VALUE"
  /\ Head(buf) = c

\* The Record after the trimmed name and value of the running field were
\* inserted into it.
C31_Stored ==
  SetItem("BibTeXData", Top.bibData, Strip(Top.fieldName), StrV(Strip(Top.fieldValue))).data

\* The field is stored and the entry goes on in OUTSIDE.
C31_EndsField ==
  /\ Len(stack') = Len(stack)
  /\ stack'[Len(stack')].mode = "OUTSIDE"
  /\ stack'[Len(stack')].bibData = C31_Stored
  /\ coll' = coll

\* The field is stored and the entry ends: its Record joins the collection.
C31_EndsEntry ==
  /\ Len(stack') = Len(stack) - 1
  /\ coll' = Append(coll, Record(BibFileDataType, C31_Stored))

\* Nothing is stored and the entry goes on reading the value.
C31_GoesOn ==
  /\ Len(stack') >= Len(stack)
  /\ stack'[Len(stack)].mode \in {"FIELD_VALUE", "COMMENT"}
  /\ stack'[Len(stack)].bibData = Top.bibData
  /\ coll' = coll

\* C31: in FIELD_VALUE only an unescaped `,` or an unescaped `}` ends the
\* value: an unescaped `,` stores the trimmed name and value and returns to
\* OUTSIDE, an unescaped `}` stores them and ends the entry, and a `}` that
\* directly follows an escaping backslash neither stores the pair nor ends
\* the entry, no more than any other character.
C31_ValueEnd ==
  [][ /\ (C31_InValue(",") /\ ~C19_Escaped(call.text, C19_Position)) => C31_EndsField
      /\ (C31_InValue("}") /\ ~C19_Escaped(call.text, C19_Position)) => C31_EndsEntry
      /\ (C31_InValue("}") /\ C19_Escaped(call.text, C19_Position)) => C31_GoesOn
      /\ (\E c \in {"a", "b", " ", "\\", "{", "0", "2"} : C31_InValue(c)) => C31_GoesOn
    ]_vars

(***************************************************************************)
(* C32: comments inside an entry                                           *)
(***************************************************************************)
\* parseEntry is running in one of the given modes and c is read next.
C32_Reads(modes, c) ==
  /\ stack # <<>> /\ buf # <<>>
  /\ Top.fn = "parseEntry" /\ Top.mode \in modes
  /\ Head(buf) = c

\* The texts parseEntry has accumulated and the Record it fills.
C32_Kept(f) == << f.fieldName, f.fieldValue, f.bibData >>

\* C32: inside an entry an unescaped `%` met in OUTSIDE, FIELD_NAME or
\* FIELD_VALUE starts a comment; every character up to the next newline is
\* discarded, then the state the comment was met in is resumed, and no
\* discarded character becomes part of a field name, of a field value or of
\* the citation key.
C32_EntryComment ==
  [][ /\ (/\ C32_Reads({"OUTSIDE", "FIELD_NAME", "FIELD_VALUE"}, "%")
          /\ ~(Top.mode = "FIELD_VALUE" /\ C19_Escaped(call.text, C19_Position))) =>
            /\ Len(stack') = Len(stack)
            /\ stack'[Len(stack)].mode = "COMMENT"
            /\ stack'[Len(stack)].prevMode = Top.mode
            /\ stack'[Len(stack)].fieldValue = Top.fieldValue
            /\ stack'[Len(stack)].bibData = Top.bibData
      /\ (\E c \in {"c", " ", "%", ",", "}", "=", "{"} :
            C32_Reads({"COMMENT"}, c)) =>
            stack' = stack /\ coll' = coll
      /\ C32_Reads({"COMMENT"}, "\n") =>
            /\ Len(stack') = Len(stack)
            /\ stack'[Len(stack)].mode = Top.prevMode
            /\ C32_Kept(stack'[Len(stack)]) = C32_Kept(Top)
    ]_vars

(***************************************************************************)
(* C33: the file scope                                                     *)
(***************************************************************************)
\* parseFile is running in one of the given modes and reads next a
\* character of the file.
C33_Reads(modes) ==
  /\ stack # <<>> /\ buf # <<>>
  /\ Top.fn = "parseFile" /\ Top.mode \in modes

\* The step printed nothing and appended nothing.
C33_Silent == diags' = diags /\ coll' = coll

\* C33: at file scope in OUTSIDE a whitespace is skipped silently and every
\* other character but `@` and `%` gives one UnexpectedCharacter diagnostic
\* and is skipped, the state staying as it was; a comment entered by `%` from
\* OUTSIDE or ENTRY_TYPE discards the input up to the next newline and then
\* resumes the state it was entered from, with the entry type accumulated so
\* far.
C33_FileScope ==
  [][ /\ (C33_Reads({"OUTSIDE"}) /\ IsSpace(Head(buf))) =>
            stack' = stack /\ C33_Silent
      /\ (C33_Reads({"OUTSIDE"}) /\ ~IsSpace(Head(buf)) /\ Head(buf) \notin {"@", "%"}) =>
            /\ stack' = stack /\ coll' = coll
            /\ diags' = Append(diags, Diag("UnexpectedCharacter", << Head(buf) >>))
      /\ (C33_Reads({"OUTSIDE", "ENTRY_TYPE"}) /\ Head(buf) = "%") =>
            /\ stack' = << [Top EXCEPT !.mode = "COMMENT", !.prevMode = Top.mode] >>
            /\ C33_Silent
      /\ (C33_Reads({"COMMENT"}) /\ Head(buf) # "\n") =>
            stack' = stack /\ C33_Silent
      /\ (C33_Reads({"COMMENT"}) /\ Head(buf) = "\n") =>
            /\ stack' = << [Top EXCEPT !.mode = Top.prevMode] >>
            /\ C33_Silent
    ]_vars

\* A comment met in an entry type has ended and the entry type read before
\* it is still there, after a stray character was reported.
C33_Witness ==
  /\ stack # <<>> /\ Top.fn = "parseFile"
  /\ Top.mode = "ENTRY_TYPE" /\ Top.prevMode = "ENTRY_TYPE"
  /\ Top.entryType = S("art")
  /\ \E i \in 1..Len(diags) : diags[i] = Diag("UnexpectedCharacter", <<"x">>)
  /\ Head(buf) = "i"

(***************************************************************************)
(* C34: one Record per entry header                                        *)
(***************************************************************************)
\* The supported entry types.
C34_Supported ==
  { S("article"), S("book"), S("booklet"), S("inbook"), S("incollection"),
    S("inproceedings"), S("manual"), S("mastersthesis"), S("misc"), S("phdthesis"),
    S("proceedings"), S("techreport"), S("unpublished") }

\* parseFile reads the `{` of an entry header: parseEntry starts.
C34_Header == stack # <<>> /\ Top.fn = "parseFile" /\ Len(stack') = 2

\* An entry is being parsed.
C34_InEntry(stk) == Len(stk) >= 2

\* The Record of the entry starts with the trimmed lower-cased tag as its
\* content_type if the tag is a supported type, without content_type and
\* with one diagnostic otherwise.
C34_ContentType ==
  LET tag == Lower(Strip(Top.entryType))
      bibData == stack'[2].bibData
  IN  /\ Top.mode = "ENTRY_TYPE"
      /\ IF tag \in C34_Supported
         THEN bibData = << <<S("content_type"), StrV(tag)>> >> /\ diags' = diags
         ELSE bibData = <<>> /\ Len(diags') = Len(diags) + 1

\* The entry returns: its Record becomes the last of the collection and
\* parseFile is in OUTSIDE again.
C34_Appended ==
  /\ Len(stack') = 1 /\ stack'[1].fn = "parseFile" /\ stack'[1].mode = "OUTSIDE"
  /\ Len(coll') = Len(coll) + 1
  /\ SubSeq(coll', 1, Len(coll)) = coll
  /\ \A name \in { S("content_type") } :
       /\ DictHas(coll'[Len(coll')].data, name) <=> DictHas(stack[2].bibData, name)
       /\ DictHas(stack[2].bibData, name) =>
            DictGet(coll'[Len(coll')].data, name) = DictGet(stack[2].bibData, name)

\* C34: every `{` read in ENTRY_TYPE yields exactly one Record appended to
\* the collection, so that the collection holds after parsing its previous
\* Records followed by one Record per entry header in input order; the
\* content_type of the Record is the trimmed lower-cased tag if the tag is
\* a supported entry type and is absent, with one diagnostic, otherwise; and
\* parseFile is back in OUTSIDE after the entry returned.
C34_RecordPerHeader ==
  [][ /\ C34_Header => C34_ContentType
      /\ (C34_InEntry(stack) /\ ~C34_InEntry(stack')) => C34_Appended
      /\ ~(C34_InEntry(stack) /\ ~C34_InEntry(stack')) => coll' = coll
    ]_vars

(***************************************************************************)
(* C35: one cursor, and termination                                        *)
(***************************************************************************)
\* A step reads the character under the cursor and moves the cursor by one,
\* or finds the end of the input.
C35_OneCharacter ==
  IF buf # <<>> THEN buf' = Tail(buf) /\ eof' = eof
  ELSE buf' = <<>> /\ eof'

\* A call that ends hands over to its caller, and it ends at a `}` or at the
\* end of the input.
C35_Returns ==
  Len(stack') < Len(stack) =>
    /\ Len(stack') = Len(stack) - 1
    /\ buf = <<>> \/ Head(buf) = "}"

\* Once the end of the input was seen every step ends the running call.
C35_Unwinds == eof => Len(stack') = Len(stack) - 1

\* C35: parseFile terminates on every finite input: the file, entry and
\* group parsers share one cursor, every step consumes exactly one character
\* and none is read twice, each group or entry returns to its caller at its
\* terminating character or at the end of the input, and once a level has
\* seen the end of the input every enclosing level returns without reading
\* further.
C35_Terminates ==
  /\ [][C35_OneCharacter /\ C35_Returns /\ C35_Unwinds]_vars
  /\ <>(stack = <<>>)

(***************************************************************************)
(* C36: no field is written twice                                          *)
(***************************************************************************)
\* The field lines of a written entry: those that begin with two spaces.
C36_Lines(text) ==
  SelectSeq(Split(text, S("\n")), LAMBDA line : Len(line) > 2 /\ SubSeq(line, 1, 2) = S("  "))

\* Where " = {" begins in a field line.
C36_Equals(line) == CHOOSE k \in 1..Len(line) : MatchAt(line, S(" = {"), k)

\* The name and the value a field line holds: "  name = {value},".
C36_Name(line) == SubSeq(line, 3, C36_Equals(line) - 1)

C36_Value(line) == SubSeq(line, C36_Equals(line) + 4, Len(line) - 2)

\* C36: within one written entry no canonical field name is emitted twice
\* and no field of the Record is emitted twice: the alias pass emits a
\* canonical field only if the required and optional passes have not, and
\* the last pass writes only the fields that no earlier pass has emitted
\* under any name.
C36_NoFieldTwice ==
  (call.op = "write" /\ call.w.exc = "none") =>
    LET lines == C36_Lines(call.w.text)
        data == call.item.data
    IN  /\ \A i, j \in 1..Len(lines) : C36_Name(lines[i]) = C36_Name(lines[j]) => i = j
        /\ \A f \in 1..Len(data) :
             Cardinality({ i \in 1..Len(lines) : C36_Value(lines[i]) = PyStr(data[f][2]) }) <= 1


(***************************************************************************)
(* C37: records held by a BibFile keep the BibTeX schema                   *)
(***************************************************************************)
\* The object o is an element of a BibFile, appended to it from a record of
\* the BibTeX schema as parseFile appends the record of an entry.
C37_Held(o) ==
  /\ \E s \in 1..Len(sets) :
       /\ sets[s].cls = "BibFile"
       /\ \E i \in 1..Len(lists[sets[s].ref]) : lists[sets[s].ref][i] = o
  /\ \E p \in 1..Len(objs) : objs[p].cls = "BibTeXData" /\ objs[p].ref = objs[o].ref

\* What the BibTeX schema makes of the value inserted by the last call.
C37_Valid == Check("BibTeXData", call.value, call.name)

\* C37: Records held by a BibFile keep the BibTeX schema: inserting a valid
\* value for a known BibTeX field into a Record of the collection stores
\* that value and does not reject it as an unknown field.
C37_KeepsSchema ==
  (/\ call.op = "set"
   /\ C37_Held(call.obj)
   /\ C37_Valid.exc = "none"
   /\ C37_Valid.val # NoneV)
  => /\ exc = "none"
     /\ DictHas(heap[objs[call.obj].ref], call.name)
     /\ DictGet(heap[objs[call.obj].ref], call.name) = C37_Valid.val
     /\ \A i \in 1..Len(call.diags) : call.diags[i].k # "UnknownField"

(***************************************************************************)
(* C38: an insertion that fails validation leaves the record as it was     *)
(***************************************************************************)
\* What the schema of the record makes of the value of the last insertion.
C38_Checked == Check(objs[call.obj].cls, call.value, call.name)

\* The last call inserted a value that its record's schema does not accept:
\* __check warned and returned None, or an exception escaped from it.
C38_Fails ==
  /\ call.op = "set"
  /\ C38_Checked.exc # "none" \/ C38_Checked.val = NoneV

\* C38: inserting a value that fails validation into a Record leaves the
\* Record unchanged: every field it held keeps its value, no field is
\* added, and the only diagnostic emitted is the validation diagnostic of
\* that field, never DuplicateField; the parser's store of a field value
\* that fails validation leaves the entry's record unchanged likewise.
C38_InvalidLeavesUnchanged ==
  /\ [](C38_Fails =>
          /\ heap[objs[call.obj].ref] = call.before
          /\ \A i \in 1..Len(call.diags) :
               call.diags[i] = Diag(C38_Checked.diag, call.name)
          /\ \A i \in 1..Len(call.diags) : call.diags[i].k # "DuplicateField"
          /\ C38_Checked.exc = "none" => Len(call.diags) = 1)
  /\ [][(/\ stack # <<>> /\ Top.fn = "parseEntry" /\ buf # <<>>
         /\ C12_Stores(Top, Head(buf))
         /\ Check("BibTeXData", C12_Stored(Top)[2], C12_Stored(Top)[1]).exc = "none"
         /\ Check("BibTeXData", C12_Stored(Top)[2], C12_Stored(Top)[1]).val = NoneV) =>
          /\ exc' = "none"
          /\ diags' = Append(diags, Diag(Check("BibTeXData", C12_Stored(Top)[2],
                                               C12_Stored(Top)[1]).diag,
                                         C12_Stored(Top)[1]))
          /\ Top.bibData = IF Head(buf) = "}" THEN coll'[Len(coll')].data
                           ELSE stack'[Len(stack')].bibData
     ]_vars

\* A record that holds field2 has been given a value its schema rejects for
\* field2: it holds what it held, and one diagnostic was warned.
C38_Witness ==
  /\ C38_Fails
  /\ C38_Checked.exc = "none"
  /\ DictHas(call.before, call.name)
  /\ heap[objs[call.obj].ref] = call.before
  /\ Len(call.diags) = 1
  /\ diags = call.diags

(***************************************************************************)
(* C39: a collection constructed from a collection                         *)
(***************************************************************************)
\* C39: a collection constructed from an existing collection is independent
\* of it: an append or a merge into one collection leaves the length and
\* the contents of every other collection unchanged, the source it was
\* constructed from and a second collection built from the same source
\* included, whatever the order of the operations.
C39_Independent ==
  [][ \A t \in 1..Len(sets) :
        (call'.op \in {"add", "merge"} /\ call'.set # t) =>
          /\ Len(lists'[sets'[t].ref]) = Len(lists[sets[t].ref])
          /\ C16_Contents(t)' = C16_Contents(t)
    ]_vars

(***************************************************************************)
(* C40: the windows of consecutive requests                                *)
(***************************************************************************)
\* The last call logged: a request, or a call that resets the Query.
C40_Last == coll[Len(coll)]

\* C40: when send() follows a send() with no reset in between, its start
\* record is the previous start record plus the number of records the
\* previous request asked for (max_records at that time, or 200), limit()
\* called between the two or not; when it follows a search-parameter
\* assignment that was carried out, a deletion, filterBy or sortBy, its
\* start record is 1.
C40_Contiguous ==
  [][ (call'.op = "send" /\ call'.exc = "none" /\ call'.args = NoneV /\ coll # <<>>) =>
        /\ C40_Last.op = "send" =>
             DictGet(heap'[1], "start_record") = IntV(C40_Last.start + C40_Last.records)
        /\ (C40_Last.op # "send" /\ C40_Last.done) =>
             DictGet(heap'[1], "start_record") = IntV(1)
    ]_vars
====
